---- MODULE Spec2Model ----
(***************************************************************************)
(* capacitor: the capacity-aware transport (Transport.RoundTrip), its      *)
(* per-key State and resizable Semaphore, the signal handlers and the      *)
(* aggregation of their signals.                                           *)
(*                                                                         *)
(* Times are whole seconds on one clock (now); durations are seconds.      *)
(* Header values are sequences of characters, "" (the empty sequence)      *)
(* being what http.Header.Get returns for an absent header.                *)
(***************************************************************************)
EXTENDS Integers, Sequences, FiniteSets, TLC

VARIABLES
    cfg,        \* Transport.config: the effective Config (after withDefaults)
    env,        \* what the callers and the servers of this run do (fixed by Init)
    now,        \* the clock read by time.Now()
    hosts,      \* Transport.hosts: the keys that have a hostState
    state,      \* hostState.state per key: the State record
    sem,        \* hostState.semaphore per key: max, current, waiters
    pc,         \* where each request is inside RoundTrip
    key,        \* the key of each request (hostKey(req.URL))
    ctx,        \* the acquire context of each request: live, canceled, deadline
    helper,     \* the helper goroutine spawned by the slow path of Acquire
    resp,       \* the response the underlying transport returned
    action,     \* the SignalAction aggregated for that response
    result,     \* what RoundTrip returned last
    log,        \* what ran for the request, in order
    solo,       \* no other response of this key was applied while this one was
    aux         \* history: hostStates created and largest capacity per key, and
                \* the Semaphore as it was when its callers went quiet

vars == <<cfg, env, now, hosts, state, sem, pc, key, ctx, helper, resp,
          action, result, log, solo, aux>>

-----------------------------------------------------------------------------
(* Bounds of the model *)

MaxTime == 2

\* Two requests at a time, to one key or to two.
Requests == {1, 2}
Keys == {1, 2}
OneKey == {1}

\* The longest list of signals handed to processSignals.
MaxSignals == 3

\* How many responses are applied one after the other to one key.
MaxApplies == 3

-----------------------------------------------------------------------------
(* Program constants *)

DefaultInitialConcurrency == 100
DefaultMaxConcurrency == 100
DefaultMinConcurrency == 1
DefaultRetryAfterRateLimit == 5
DefaultRetryAfterBackoff == 10
DefaultAcquireTimeout == 30
DefaultStateExpiry == 30
UnixTimestampThreshold == 1000000000
StatusTooManyRequests == 429
StatusServiceUnavailable == 503
StatusEnhanceYourCalm == 420
ZeroTime == 0

Min2(a, b) == IF a < b THEN a ELSE b
max(a, b) == IF a > b THEN a ELSE b

\* Go's integer division truncates toward zero.
GoDiv(a, b) ==
    IF (a >= 0) = (b > 0) THEN (IF a >= 0 THEN a ELSE -a) \div (IF b > 0 THEN b ELSE -b)
    ELSE -((IF a >= 0 THEN a ELSE -a) \div (IF b > 0 THEN b ELSE -b))

-----------------------------------------------------------------------------
(* Parsing of header values *)

Digits == {"0", "1", "2", "3", "4", "5", "6", "7", "8", "9"}

DigitVal(c) ==
    CASE c = "0" -> 0 [] c = "1" -> 1 [] c = "2" -> 2 [] c = "3" -> 3
      [] c = "4" -> 4 [] c = "5" -> 5 [] c = "6" -> 6 [] c = "7" -> 7
      [] c = "8" -> 8 [] c = "9" -> 9

RECURSIVE DigitsVal(_)
DigitsVal(s) ==
    IF s = <<>> THEN 0
    ELSE 10 * DigitsVal(SubSeq(s, 1, Len(s) - 1)) + DigitVal(s[Len(s)])

AllDigits(s) == s # <<>> /\ \A i \in 1..Len(s) : s[i] \in Digits

\* strconv.Atoi: an optional sign and at least one digit, nothing else.
AtoiOk(s) ==
    /\ s # <<>>
    /\ IF s[1] \in {"+", "-"} THEN AllDigits(Tail(s)) ELSE AllDigits(s)

\* strconv.Atoi's value; 0 when it reports an error.
Atoi(s) ==
    IF ~AtoiOk(s) THEN 0
    ELSE IF s[1] = "-" THEN -DigitsVal(Tail(s))
    ELSE IF s[1] = "+" THEN DigitsVal(Tail(s))
    ELSE DigitsVal(s)

\* An HTTP-date is written <<"@">> \o digits: the instant, in seconds of the clock.
IsHTTPDate(s) == Len(s) >= 2 /\ s[1] = "@" /\ AllDigits(Tail(s))
HTTPDateTime(s) == DigitsVal(Tail(s))

parseRetryAfter(value, t) ==
    IF AtoiOk(value) THEN Atoi(value)
    ELSE IF IsHTTPDate(value) THEN HTTPDateTime(value) - t
    ELSE 0

\* parseResetValue without the seconds-from-now branch.
parseResetValueAsTimestamp(value, t) ==
    IF ~AtoiOk(value) THEN [blockUntil |-> ZeroTime, retryAfter |-> 0]
    ELSE [blockUntil |-> Atoi(value), retryAfter |-> Atoi(value) - t]

parseResetValue(value, t) ==
    IF ~AtoiOk(value) THEN [blockUntil |-> ZeroTime, retryAfter |-> 0]
    ELSE IF Atoi(value) > UnixTimestampThreshold
         THEN [blockUntil |-> Atoi(value), retryAfter |-> Atoi(value) - t]
         ELSE [blockUntil |-> t + Atoi(value), retryAfter |-> Atoi(value)]

RECURSIVE CutAtSeparator(_)
CutAtSeparator(v) ==
    IF v = <<>> THEN <<>>
    ELSE IF Head(v) \in {",", ";", " "} THEN <<>>
    ELSE <<Head(v)>> \o CutAtSeparator(Tail(v))

parseRateLimitValue(v) == Atoi(CutAtSeparator(v))

-----------------------------------------------------------------------------
(* Signal handlers *)

NoSignal == [Source |-> "none"]

Signal(source, type, suggested, retryAfter, blockUntil, remaining, limit) ==
    [Source |-> source, Type |-> type, SuggestedConcurrency |-> suggested,
     RetryAfter |-> retryAfter, BlockUntil |-> blockUntil,
     Remaining |-> remaining, Limit |-> limit]

HTTPStatusRetryAfter(r, t) ==
    IF r.retryAfter # <<>> THEN parseRetryAfter(r.retryAfter, t) ELSE 0

HTTPStatusDefaultRetryAfter(status) ==
    IF status = StatusServiceUnavailable THEN DefaultRetryAfterBackoff
    ELSE DefaultRetryAfterRateLimit

HTTPStatusProcess(r, t) ==
    IF r.status \notin {StatusTooManyRequests, StatusServiceUnavailable, StatusEnhanceYourCalm}
    THEN NoSignal
    ELSE LET type == IF r.status = StatusServiceUnavailable THEN "backoff" ELSE "rate_limit"
             parsed == HTTPStatusRetryAfter(r, t)
         IN  IF parsed = 0
             THEN Signal("http", type, 0, HTTPStatusDefaultRetryAfter(r.status),
                         t + HTTPStatusDefaultRetryAfter(r.status), 0, 0)
             ELSE Signal("http", type, 0, parsed,
                         IF parsed > 0 THEN t + parsed ELSE ZeroTime, 0, 0)

\* A classification that blocks only below zero remaining.
RateLimitTypeStrict(limit, remaining) ==
    IF remaining < 0 /\ limit > 0 THEN "block"
    ELSE IF limit > 0 /\ remaining < GoDiv(limit, 10) THEN "rate_limit"
    ELSE "capacity"

RateLimitType(limit, remaining) ==
    IF remaining <= 0 /\ limit > 0 THEN "block"
    ELSE IF limit > 0 /\ remaining < GoDiv(limit, 10) THEN "rate_limit"
    ELSE "capacity"

\* A suggestion computed with the operands of the division the other way round.
RateLimitSuggestedSwapped(limit, remaining) ==
    IF RateLimitType(limit, remaining) = "rate_limit"
    THEN max(1, GoDiv(limit, remaining * 10))
    ELSE 0

RateLimitSuggested(limit, remaining) ==
    IF RateLimitType(limit, remaining) = "rate_limit"
    THEN max(1, GoDiv(remaining * 10, limit))
    ELSE 0

\* The first non-empty value among the header's three spellings
\* (X-RateLimit-, RateLimit-, CF-RateLimit-).
RECURSIVE getFirstHeader(_)
getFirstHeader(values) ==
    IF values = <<>> THEN <<>>
    ELSE IF Head(values) # <<>> THEN Head(values)
    ELSE getFirstHeader(Tail(values))

RateLimitProcess(r, t) ==
    LET limitHdr == getFirstHeader(r.limit)
        remainingHdr == getFirstHeader(r.remaining)
        resetHdr == getFirstHeader(r.reset)
        limit == IF limitHdr # <<>> THEN parseRateLimitValue(limitHdr) ELSE 0
        remaining == IF remainingHdr # <<>> THEN Atoi(remainingHdr) ELSE 0
        reset == IF resetHdr # <<>> THEN parseResetValue(resetHdr, t)
                 ELSE [blockUntil |-> ZeroTime, retryAfter |-> 0]
    IN  IF limitHdr = <<>> /\ remainingHdr = <<>> /\ resetHdr = <<>> /\ r.rateInfo = <<>>
        THEN NoSignal
        ELSE Signal("ratelimit", RateLimitType(limit, remaining),
                    RateLimitSuggested(limit, remaining),
                    reset.retryAfter, reset.blockUntil, remaining, limit)

CapacityType(status) ==
    IF status = "at_limit" THEN "rate_limit"
    ELSE IF status = "degraded" THEN "backoff"
    ELSE "capacity"

CapacityProcess(r, t) ==
    IF r.capStatus = "" /\ r.capSuggested = <<>>
    THEN NoSignal
    ELSE Signal("capacity", CapacityType(r.capStatus),
                IF r.capSuggested # <<>> THEN Atoi(r.capSuggested) ELSE 0,
                0, ZeroTime, 0, 0)

GOAWAYProcess(r, t) == NoSignal

GOAWAYBackoff == 5
ConnectionResetBackoff == 2

\* strings.Contains(err.Error(), ...) on the errors of the underlying transport.
ContainsGOAWAY(e) == e \in {"http2: server sent GOAWAY"}
ContainsConnectionReset(e) == e \in {"connection reset by peer"}

\* GOAWAYHandler.ProcessError
ProcessError(e, t) ==
    IF e = "" THEN NoSignal
    ELSE IF ContainsGOAWAY(e)
    THEN Signal("http2", "backoff", 0, GOAWAYBackoff, t + GOAWAYBackoff, 0, 0)
    ELSE IF ContainsConnectionReset(e)
    THEN Signal("connection", "backoff", 0, ConnectionResetBackoff, ZeroTime, 0, 0)
    ELSE NoSignal

Process(handler, r, t) ==
    CASE handler = "http_status" -> HTTPStatusProcess(r, t)
      [] handler = "ratelimit" -> RateLimitProcess(r, t)
      [] handler = "capacity" -> CapacityProcess(r, t)
      [] handler = "goaway" -> GOAWAYProcess(r, t)

\* The handler loop of updateState: the non-nil signals, in handler order.
RECURSIVE CollectSignals(_, _, _)
CollectSignals(handlers, r, t) ==
    IF handlers = <<>> THEN <<>>
    ELSE LET s == Process(Head(handlers), r, t)
         IN  (IF s = NoSignal THEN <<>> ELSE <<s>>) \o CollectSignals(Tail(handlers), r, t)

-----------------------------------------------------------------------------
(* Aggregation *)

EmptyAction ==
    [AdjustConcurrency |-> FALSE, NewConcurrency |-> 0, Block |-> FALSE,
     BlockUntil |-> ZeroTime, RetryAfter |-> 0, Backoff |-> FALSE]

\* An aggregation in which each block signal overwrites what the earlier ones set.
FoldSignalOverwritingBlock(a, s) ==
    CASE s.Type = "block" ->
            [a EXCEPT !.Block = TRUE,
                      !.BlockUntil = s.BlockUntil,
                      !.RetryAfter = s.RetryAfter]
      [] s.Type \in {"rate_limit", "backoff"} ->
            LET take == s.SuggestedConcurrency > 0
                        /\ (~a.AdjustConcurrency \/ s.SuggestedConcurrency < a.NewConcurrency)
            IN  [a EXCEPT !.AdjustConcurrency = IF take THEN TRUE ELSE @,
                          !.NewConcurrency = IF take THEN s.SuggestedConcurrency ELSE @,
                          !.Backoff = IF s.Type = "backoff" THEN TRUE ELSE @]
      [] s.Type = "capacity" ->
            LET take == s.SuggestedConcurrency > 0 /\ ~a.AdjustConcurrency
            IN  [a EXCEPT !.AdjustConcurrency = IF take THEN TRUE ELSE @,
                          !.NewConcurrency = IF take THEN s.SuggestedConcurrency ELSE @]
      [] OTHER -> a

\* An aggregation in which the latest rate_limit or backoff suggestion wins.
FoldSignalLastWins(a, s) ==
    CASE s.Type = "block" ->
            [a EXCEPT !.Block = TRUE,
                      !.BlockUntil = IF s.BlockUntil > a.BlockUntil THEN s.BlockUntil ELSE @,
                      !.RetryAfter = IF s.RetryAfter > a.RetryAfter THEN s.RetryAfter ELSE @]
      [] s.Type \in {"rate_limit", "backoff"} ->
            LET take == s.SuggestedConcurrency > 0
            IN  [a EXCEPT !.AdjustConcurrency = IF take THEN TRUE ELSE @,
                          !.NewConcurrency = IF take THEN s.SuggestedConcurrency ELSE @,
                          !.Backoff = IF s.Type = "backoff" THEN TRUE ELSE @]
      [] s.Type = "capacity" ->
            LET take == s.SuggestedConcurrency > 0 /\ ~a.AdjustConcurrency
            IN  [a EXCEPT !.AdjustConcurrency = IF take THEN TRUE ELSE @,
                          !.NewConcurrency = IF take THEN s.SuggestedConcurrency ELSE @]
      [] OTHER -> a

\* An aggregation in which a capacity suggestion replaces whatever was proposed before.
FoldSignalCapacityOverrides(a, s) ==
    CASE s.Type = "block" ->
            [a EXCEPT !.Block = TRUE,
                      !.BlockUntil = IF s.BlockUntil > a.BlockUntil THEN s.BlockUntil ELSE @,
                      !.RetryAfter = IF s.RetryAfter > a.RetryAfter THEN s.RetryAfter ELSE @]
      [] s.Type \in {"rate_limit", "backoff"} ->
            LET take == s.SuggestedConcurrency > 0
                        /\ (~a.AdjustConcurrency \/ s.SuggestedConcurrency < a.NewConcurrency)
            IN  [a EXCEPT !.AdjustConcurrency = IF take THEN TRUE ELSE @,
                          !.NewConcurrency = IF take THEN s.SuggestedConcurrency ELSE @,
                          !.Backoff = IF s.Type = "backoff" THEN TRUE ELSE @]
      [] s.Type = "capacity" ->
            LET take == s.SuggestedConcurrency > 0
            IN  [a EXCEPT !.AdjustConcurrency = IF take THEN TRUE ELSE @,
                          !.NewConcurrency = IF take THEN s.SuggestedConcurrency ELSE @]
      [] OTHER -> a

\* processSignals: what one signal of the loop does to the action.
FoldSignal(a, s) ==
    CASE s.Type = "block" ->
            [a EXCEPT !.Block = TRUE,
                      !.BlockUntil = IF s.BlockUntil > a.BlockUntil THEN s.BlockUntil ELSE @,
                      !.RetryAfter = IF s.RetryAfter > a.RetryAfter THEN s.RetryAfter ELSE @]
      [] s.Type \in {"rate_limit", "backoff"} ->
            LET take == s.SuggestedConcurrency > 0
                        /\ (~a.AdjustConcurrency \/ s.SuggestedConcurrency < a.NewConcurrency)
            IN  [a EXCEPT !.AdjustConcurrency = IF take THEN TRUE ELSE @,
                          !.NewConcurrency = IF take THEN s.SuggestedConcurrency ELSE @,
                          !.Backoff = IF s.Type = "backoff" THEN TRUE ELSE @]
      [] s.Type = "capacity" ->
            LET take == s.SuggestedConcurrency > 0 /\ ~a.AdjustConcurrency
            IN  [a EXCEPT !.AdjustConcurrency = IF take THEN TRUE ELSE @,
                          !.NewConcurrency = IF take THEN s.SuggestedConcurrency ELSE @]
      [] OTHER -> a

RECURSIVE FoldSignals(_, _)
FoldSignals(a, signals) ==
    IF signals = <<>> THEN a
    ELSE FoldSignals(FoldSignal(a, Head(signals)), Tail(signals))

processSignals(signals) == FoldSignals(EmptyAction, signals)

-----------------------------------------------------------------------------
(* Configuration *)

NilConfig == [nil |-> TRUE]

Config(initial, maxc, minc, handlers, goaway, callbacks) ==
    [InitialConcurrency |-> initial, MaxConcurrency |-> maxc, MinConcurrency |-> minc,
     SignalHandlers |-> handlers, EnableGOAWAYHandling |-> goaway,
     OnSignal |-> callbacks, OnStateChange |-> callbacks,
     AcquireTimeout |-> 0, StateExpiry |-> 0, UserAgent |-> ""]

DefaultConfig ==
    [Config(DefaultInitialConcurrency, DefaultMaxConcurrency, DefaultMinConcurrency,
            <<>>, FALSE, FALSE)
       EXCEPT !.AcquireTimeout = DefaultAcquireTimeout,
              !.StateExpiry = DefaultStateExpiry,
              !.UserAgent = "Capacitor/1.0"]

\* A withDefaults that replaces zero values only.
withDefaultsZeroOnly(c) ==
    IF c = NilConfig THEN DefaultConfig
    ELSE [c EXCEPT
            !.InitialConcurrency = IF @ = 0 THEN DefaultInitialConcurrency ELSE @,
            !.MaxConcurrency = IF @ = 0 THEN DefaultMaxConcurrency ELSE @,
            !.MinConcurrency = IF @ = 0 THEN DefaultMinConcurrency ELSE @,
            !.AcquireTimeout = IF @ = 0 THEN DefaultAcquireTimeout ELSE @,
            !.StateExpiry = IF @ = 0 THEN DefaultStateExpiry ELSE @]

\* Config.withDefaults: UserAgent, the handlers and the callbacks are kept as given.
withDefaults(c) ==
    IF c = NilConfig THEN DefaultConfig
    ELSE [c EXCEPT
            !.InitialConcurrency = IF @ <= 0 THEN DefaultInitialConcurrency ELSE @,
            !.MaxConcurrency = IF @ <= 0 THEN DefaultMaxConcurrency ELSE @,
            !.MinConcurrency = IF @ <= 0 THEN DefaultMinConcurrency ELSE @,
            !.AcquireTimeout = IF @ <= 0 THEN DefaultAcquireTimeout ELSE @,
            !.StateExpiry = IF @ <= 0 THEN DefaultStateExpiry ELSE @]

\* Builder.WithAll and Build: the three response handlers, sorted by priority.
AllHandlers == <<"http_status", "ratelimit", "capacity">>

-----------------------------------------------------------------------------
(* Responses and errors of the underlying transport *)

Absent3 == <<<<>>, <<>>, <<>>>>

Response(status, retryAfter, limit, remaining, reset, capStatus, capSuggested) ==
    [status |-> status, retryAfter |-> retryAfter, limit |-> limit,
     remaining |-> remaining, reset |-> reset, rateInfo |-> <<>>,
     capStatus |-> capStatus, capSuggested |-> capSuggested, err |-> ""]

NoResponse == Response(0, <<>>, Absent3, Absent3, Absent3, "", <<>>)

\* What the underlying RoundTrip returns when it fails: no response, and the error.
Failure(e) == [NoResponse EXCEPT !.err = e]

Plain200 == Response(200, <<>>, Absent3, Absent3, Absent3, "", <<>>)

\* 200 with X-Capacity-Status and X-Capacity-Suggested-Concurrency.
CapacityResponse(status, suggested) ==
    Response(200, <<>>, Absent3, Absent3, Absent3, status, suggested)

\* 429 with Retry-After.
TooManyRequests(retryAfter) ==
    Response(StatusTooManyRequests, retryAfter, Absent3, Absent3, Absent3, "", <<>>)

\* 200 with X-RateLimit-Limit, X-RateLimit-Remaining and X-RateLimit-Reset.
RateLimited(limit, remaining, reset) ==
    Response(200, <<>>, <<limit, <<>>, <<>>>>, <<remaining, <<>>, <<>>>>,
             <<reset, <<>>, <<>>>>, "", <<>>)

TransportErrors == {"http2: server sent GOAWAY", "connection reset by peer", "EOF"}

-----------------------------------------------------------------------------
(* The runs that are checked: a configuration handed to NewTransport, and what the
   callers (keys, cancellation) and the servers (responses, errors) do under it. *)

EnvOn(keys, responses, errors, cancels) ==
    [keys |-> keys, responses |-> responses, errors |-> errors, cancels |-> cancels]

Env(responses, errors, cancels) == EnvOn(OneKey, responses, errors, cancels)

Scenario(c, e) == [cfg |-> c, env |-> e]

Scenarios ==
    {\* passthrough (nil config): no handler, a hundred slots
     Scenario(NilConfig,
              Env({Plain200, CapacityResponse("healthy", <<"1">>)}, TransportErrors, TRUE)),
     \* one slot, callers that cancel and time out, GOAWAY handling enabled
     Scenario(Config(1, 2, 1, AllHandlers, TRUE, TRUE),
              Env({Plain200, CapacityResponse("healthy", <<"2">>)},
                  {"http2: server sent GOAWAY"}, TRUE)),
     \* capacity suggestions below, inside and above [min, max]
     Scenario(Config(3, 3, 2, AllHandlers, FALSE, TRUE),
              Env({CapacityResponse("healthy", <<"1">>), CapacityResponse("busy", <<"3">>),
                   CapacityResponse("", <<"5">>)}, {}, FALSE)),
     \* initial above max, and no callbacks
     Scenario(Config(3, 2, 1, <<"capacity">>, FALSE, FALSE),
              Env({Plain200, CapacityResponse("at_limit", <<"1">>)}, {}, FALSE)),
     \* initial (default) above max, and min above max
     Scenario(Config(0, 2, 3, <<"goaway", "capacity">>, FALSE, TRUE),
              Env({CapacityResponse("degraded", <<"1">>)}, {}, FALSE)),
     \* 429 with Retry-After, and exhausted rate limits
     Scenario(Config(2, 2, 1, AllHandlers, FALSE, TRUE),
              Env({TooManyRequests(<<"2">>), RateLimited(<<"1", "0">>, <<"0">>, <<"2">>),
                   RateLimited(<<"1", "0">>, <<"0">>, <<"1">>)}, {}, FALSE)),
     \* two keys, one slot each at first
     Scenario(Config(1, 2, 1, <<"capacity">>, FALSE, FALSE),
              EnvOn(Keys, {Plain200, CapacityResponse("busy", <<"2">>)}, {"EOF"}, FALSE))}

\* 429 with Retry-After, an exhausted X-RateLimit-Remaining and X-Capacity headers:
\* every built-in handler returns a signal for it.
Overloaded ==
    [RateLimited(<<"1", "0">>, <<"0">>, <<"2">>)
       EXCEPT !.status = StatusTooManyRequests, !.retryAfter = <<"1">>,
              !.capStatus = "busy", !.capSuggested = <<"1">>]

\* 200 with X-Capacity-Status: at_limit and a negative suggestion, and a 200 whose
\* suggestion is negative while its rate limit is nearly used up.
InvalidSuggestion == CapacityResponse("at_limit", <<"-", "1">>)
InvalidWhileApproaching ==
    [RateLimited(<<"4", "5">>, <<"3">>, <<>>) EXCEPT !.capSuggested = <<"-", "2">>]

\* SignalHandler.Priority of the built-in handlers.
Priority(h) ==
    CASE h = "goaway" -> 5
      [] h = "http_status" -> 10
      [] h = "ratelimit" -> 20
      [] h = "capacity" -> 100

\* sort.Slice(b.handlers, by Priority) of Build and Transport.
RECURSIVE InsertByPriority(_, _)
InsertByPriority(h, sorted) ==
    IF sorted = <<>> THEN <<h>>
    ELSE IF Priority(h) < Priority(Head(sorted)) THEN <<h>> \o sorted
    ELSE <<Head(sorted)>> \o InsertByPriority(h, Tail(sorted))

RECURSIVE SortByPriority(_)
SortByPriority(handlers) ==
    IF handlers = <<>> THEN <<>>
    ELSE InsertByPriority(Head(handlers), SortByPriority(Tail(handlers)))

\* The Config that Builder.Build and Builder.Transport hand to NewTransport, the
\* handlers having been registered in the given order.
BuilderConfig(c, handlers) == [c EXCEPT !.SignalHandlers = SortByPriority(handlers)]

\* The orders in which the three response handlers can be registered.
HandlerOrders ==
    {hs \in [1..3 -> {"http_status", "ratelimit", "capacity"}] :
        \A i, j \in 1..3 : hs[i] = hs[j] => i = j}

\* Transports built with the handlers in each order: by NewTransport from a Config
\* whose SignalHandlers the caller wrote, and by the Builder.
Constructions ==
    {Scenario(Config(2, 2, 1, hs, FALSE, TRUE), Env({Overloaded}, {}, FALSE)) :
        hs \in HandlerOrders}
    \cup {Scenario(BuilderConfig(Config(2, 2, 1, <<>>, FALSE, TRUE), hs),
                   Env({Overloaded}, {}, FALSE)) : hs \in HandlerOrders}
    \cup {Scenario(Config(2, 2, 1, <<"ratelimit">>, FALSE, FALSE),
                   Env({RateLimited(<<"1", "0">>, <<"0">>, <<"2">>),
                        RateLimited(<<"1", "0">>, <<"0">>, <<>>)}, {}, FALSE))}
    \cup {Scenario(Config(2, 3, 1, AllHandlers, FALSE, TRUE),
                   Env({CapacityResponse("healthy", <<"3">>), InvalidSuggestion,
                        CapacityResponse("", <<"0">>), InvalidWhileApproaching},
                       {}, FALSE))}

-----------------------------------------------------------------------------
(* State *)

NewState(initialConcurrency) ==
    [Status |-> "", SuggestedConcurrency |-> 0,
     CurrentConcurrency |-> initialConcurrency,
     BlockedUntil |-> ZeroTime, Clamped |-> FALSE]

\* A State.Update that stores whatever number the header holds.
StateUpdateStoringAny(s, r) ==
    [s EXCEPT
       !.Status = IF r.capStatus # "" THEN r.capStatus ELSE @,
       !.SuggestedConcurrency =
           IF r.capSuggested # <<>> THEN Atoi(r.capSuggested) ELSE @]

\* State.Update with the non-empty capacity headers of the response.
StateUpdate(s, r) ==
    [s EXCEPT
       !.Status = IF r.capStatus # "" THEN r.capStatus ELSE @,
       !.SuggestedConcurrency =
           IF r.capSuggested # <<>> /\ Atoi(r.capSuggested) >= 0
           THEN Atoi(r.capSuggested) ELSE @]

HasCapacityHeaders(r) == r.capStatus # "" \/ r.capSuggested # <<>>

IsBlocked(k) == now < state[k].BlockedUntil

\* State.Clone
Clone(k) == state[k]

-----------------------------------------------------------------------------
(* Semaphore *)

NewSemaphore(n) == [max |-> n, current |-> 0, waiters |-> 0]

Sleeping(k) == {w \in Requests : pc[w] = "waiting" /\ key[w] = k}

\* cond.Signal: one of the goroutines asleep in cond.Wait, if there is any.
SignalChoices(k) == IF Sleeping(k) = {} THEN {0} ELSE Sleeping(k)

\* cond.Broadcast: all of them.
Broadcast(k, p) == [w \in Requests |-> IF w \in Sleeping(k) THEN "woken" ELSE p[w]]

\* The slot test off by one.
SlotFreeOffByOne(k) == sem[k].current <= sem[k].max

\* The test of Acquire's fast path and of its wait loop.
SlotFree(k) == sem[k].current < sem[k].max

\* A Release that does not look at current.
SemReleaseUnguarded(k, w) ==
    /\ sem' = [sem EXCEPT ![k].current = @ - 1]
    /\ w \in SignalChoices(k)

\* A Release that gives the slot back without the cond.Signal.
SemReleaseSilent(k, w) ==
    IF sem[k].current > 0
    THEN /\ sem' = [sem EXCEPT ![k].current = @ - 1]
         /\ w = 0
    ELSE /\ sem' = sem
         /\ w = 0

\* Semaphore.Release: one slot back and one waiter signalled, if a slot is in use.
SemRelease(k, w) ==
    IF sem[k].current > 0
    THEN /\ sem' = [sem EXCEPT ![k].current = @ - 1]
         /\ w \in SignalChoices(k)
    ELSE /\ sem' = sem
         /\ w = 0

Events(r, es) == log' = [log EXCEPT ![r] = @ \o es]

\* What the log keeps of a successful Acquire: that it happened, and whether the key
\* was blocked at that instant.
AcquireEvents(k) ==
    IF now < state[k].BlockedUntil THEN <<"Acquire", "(blocked)">> ELSE <<"Acquire">>

-----------------------------------------------------------------------------
(* Transport.updateState: the pure parts *)

\* The clamp without its upper half.
SuggestedNoCeiling(a) ==
    IF a.NewConcurrency < cfg.MinConcurrency THEN cfg.MinConcurrency ELSE a.NewConcurrency

\* The clamp of updateState: first up to MinConcurrency, then down to MaxConcurrency.
Suggested(a) ==
    LET floored == IF a.NewConcurrency < cfg.MinConcurrency
                   THEN cfg.MinConcurrency ELSE a.NewConcurrency
    IN  IF floored > cfg.MaxConcurrency THEN cfg.MaxConcurrency ELSE floored

Adjusts(a) == a.AdjustConcurrency /\ a.NewConcurrency > 0

\* Where updateState goes after the concurrency part.
AfterAdjust(rs) == IF HasCapacityHeaders(rs) THEN "update" ELSE "release"

\* Where updateState goes after the block part.
AfterBlock(a, rs) == IF Adjusts(a) THEN "apply_get" ELSE AfterAdjust(rs)

\* Where updateState goes once the action is aggregated.
ApplyEntry(a, rs) == IF a.Block THEN "apply_block" ELSE AfterBlock(a, rs)

\* The signals updateState collects: none at all without handlers.
Observe(rs, t) == CollectSignals(cfg.SignalHandlers, rs, t)

SignalEvent(s) ==
    CASE s.Source = "http" -> "OnSignal:http"
      [] s.Source = "ratelimit" -> "OnSignal:ratelimit"
      [] s.Source = "capacity" -> "OnSignal:capacity"

\* What the handler loop runs: each handler's Process, and OnSignal after a signal.
RECURSIVE ObserveLog(_, _, _)
ObserveLog(handlers, rs, t) ==
    IF handlers = <<>> THEN <<>>
    ELSE LET s == Process(Head(handlers), rs, t)
         IN  <<Head(handlers)>>
             \o (IF s # NoSignal /\ cfg.OnSignal THEN <<SignalEvent(s)>> ELSE <<>>)
             \o ObserveLog(Tail(handlers), rs, t)

ApplyPcs == {"apply_block", "apply_get", "apply_set", "apply_resize", "notify",
             "update", "release"}

Applying(k) == {q \in Requests : pc[q] \in ApplyPcs /\ key[q] = k}

ctxErr(c) == IF c = "deadline" THEN "context deadline exceeded" ELSE "context canceled"

\* RoundTrip's deferred cancel(): the acquire context is done once RoundTrip returns.
CtxAtReturn(r) ==
    IF helper[r] = "none" THEN "live"
    ELSE IF ctx[r] = "live" THEN "canceled" ELSE ctx[r]

NoResult == [kind |-> "none"]

\* Nothing created yet, and nobody quiet.
NoHistory ==
    [made |-> [k \in Keys |-> 0], peak |-> [k \in Keys |-> 0],
     quiet |-> FALSE, base |-> 0, blocked |-> 0,
     drained |-> FALSE, calm |-> FALSE, sleepers |-> {},
     applies |-> 0, repeated |-> FALSE, caller |-> 0, defaulted |-> FALSE,
     outside |-> 0]

-----------------------------------------------------------------------------
(* The state machine *)

Init ==
    /\ \E sc \in Scenarios : cfg = withDefaults(sc.cfg) /\ env = sc.env
    /\ now = 1
    /\ hosts = {}
    /\ state = [k \in Keys |-> NewState(0)]
    /\ sem = [k \in Keys |-> NewSemaphore(0)]
    /\ pc = [r \in Requests |-> "idle"]
    /\ key = [r \in Requests |-> 1]
    /\ ctx = [r \in Requests |-> "live"]
    /\ helper = [r \in Requests |-> "none"]
    /\ resp = [r \in Requests |-> NoResponse]
    /\ action = [r \in Requests |-> EmptyAction]
    /\ result = [r \in Requests |-> NoResult]
    /\ log = [r \in Requests |-> <<>>]
    /\ solo = [r \in Requests |-> FALSE]
    /\ aux = NoHistory

\* A caller issues a request: hostKey, and the read-locked lookup of
\* getOrCreateHostState.
Start(r) ==
    /\ pc[r] = "idle"
    /\ helper[r] = "none"
    /\ \E k \in env.keys, c \in (IF env.cancels THEN {"live", "deadline"} ELSE {"live"}) :
          /\ key' = [key EXCEPT ![r] = k]
          /\ ctx' = [ctx EXCEPT ![r] = c]
          /\ pc' = [pc EXCEPT ![r] = IF k \in hosts THEN "gate" ELSE "create"]
    /\ result' = [result EXCEPT ![r] = NoResult]
    /\ log' = [log EXCEPT ![r] = <<>>]
    /\ UNCHANGED <<cfg, env, aux, now, hosts, state, sem, helper, resp, action, solo>>

\* getOrCreateHostState without the second look under the write lock.
CreateUnchecked(r) ==
    /\ pc[r] = "create"
    /\ hosts' = hosts \cup {key[r]}
    /\ state' = [state EXCEPT ![key[r]] = NewState(cfg.InitialConcurrency)]
    /\ sem' = [sem EXCEPT ![key[r]] = NewSemaphore(cfg.InitialConcurrency)]
    /\ aux' = [aux EXCEPT !.made[key[r]] = @ + 1,
                          !.peak[key[r]] = cfg.InitialConcurrency]
    /\ pc' = [pc EXCEPT ![r] = "gate"]
    /\ UNCHANGED <<cfg, env, now, key, ctx, helper, resp, action, result, log, solo>>

\* getOrCreateHostState under the write lock: the double check, then the creation.
Create(r) ==
    /\ pc[r] = "create"
    /\ IF key[r] \in hosts
       THEN UNCHANGED <<hosts, state, sem, aux>>
       ELSE /\ hosts' = hosts \cup {key[r]}
            /\ state' = [state EXCEPT ![key[r]] = NewState(cfg.InitialConcurrency)]
            /\ sem' = [sem EXCEPT ![key[r]] = NewSemaphore(cfg.InitialConcurrency)]
            /\ aux' = [aux EXCEPT !.made[key[r]] = @ + 1,
                                  !.peak[key[r]] = cfg.InitialConcurrency]
    /\ pc' = [pc EXCEPT ![r] = "gate"]
    /\ UNCHANGED <<cfg, env, now, key, ctx, helper, resp, action, result, log, solo>>

\* Acquire behind a gate that turns requests to a blocked key away.
GateRefusingBlocked(r) ==
    /\ pc[r] = "gate"
    /\ IF now < state[key[r]].BlockedUntil
       THEN /\ pc' = [pc EXCEPT ![r] = "failed"]
            /\ UNCHANGED <<sem, log, helper>>
       ELSE IF sem[key[r]].current < sem[key[r]].max
       THEN /\ sem' = [sem EXCEPT ![key[r]].current = @ + 1]
            /\ pc' = [pc EXCEPT ![r] = "inflight"]
            /\ Events(r, AcquireEvents(key[r]))
            /\ UNCHANGED helper
       ELSE IF ctx[r] # "live"
       THEN /\ pc' = [pc EXCEPT ![r] = "failed"]
            /\ helper' = [helper EXCEPT ![r] = "closed"]
            /\ UNCHANGED <<sem, log>>
       ELSE /\ sem' = [sem EXCEPT ![key[r]].waiters = @ + 1]
            /\ pc' = [pc EXCEPT ![r] = "waiting"]
            /\ helper' = [helper EXCEPT ![r] = "watching"]
            /\ UNCHANGED log
    /\ UNCHANGED <<cfg, env, aux, now, hosts, state, key, ctx, resp, action, result, solo>>

\* An Acquire that looks at its context before it looks for a free slot.
GateCheckingContextFirst(r) ==
    /\ pc[r] = "gate"
    /\ IF ctx[r] # "live"
       THEN /\ pc' = [pc EXCEPT ![r] = "failed"]
            /\ helper' = [helper EXCEPT ![r] = "closed"]
            /\ UNCHANGED <<sem, log>>
       ELSE IF SlotFree(key[r])
       THEN /\ sem' = [sem EXCEPT ![key[r]].current = @ + 1]
            /\ pc' = [pc EXCEPT ![r] = "inflight"]
            /\ Events(r, AcquireEvents(key[r]))
            /\ UNCHANGED helper
       ELSE /\ sem' = [sem EXCEPT ![key[r]].waiters = @ + 1]
            /\ pc' = [pc EXCEPT ![r] = "waiting"]
            /\ helper' = [helper EXCEPT ![r] = "watching"]
            /\ UNCHANGED log
    /\ UNCHANGED <<cfg, env, aux, now, hosts, state, key, ctx, resp, action, result, solo>>

\* Semaphore.Acquire from its entry to its first return or its first cond.Wait.
Gate(r) ==
    /\ pc[r] = "gate"
    /\ IF SlotFree(key[r])
       THEN /\ sem' = [sem EXCEPT ![key[r]].current = @ + 1]
            /\ pc' = [pc EXCEPT ![r] = "inflight"]
            /\ Events(r, AcquireEvents(key[r]))
            /\ UNCHANGED helper
       ELSE IF ctx[r] # "live"
       THEN /\ pc' = [pc EXCEPT ![r] = "failed"]
            /\ helper' = [helper EXCEPT ![r] = "closed"]
            /\ UNCHANGED <<sem, log>>
       ELSE /\ sem' = [sem EXCEPT ![key[r]].waiters = @ + 1]
            /\ pc' = [pc EXCEPT ![r] = "waiting"]
            /\ helper' = [helper EXCEPT ![r] = "watching"]
            /\ UNCHANGED log
    /\ UNCHANGED <<cfg, env, aux, now, hosts, state, key, ctx, resp, action, result, solo>>

\* The wake-up whose cancelled exit forgets the waiters--.
WakeLeakingWaiter(r) ==
    /\ pc[r] = "woken"
    /\ IF ctx[r] # "live"
       THEN /\ pc' = [pc EXCEPT ![r] = "failed"]
            /\ helper' = [helper EXCEPT ![r] = IF @ = "watching" THEN "closed" ELSE @]
            /\ UNCHANGED <<sem, log>>
       ELSE IF ~SlotFree(key[r])
       THEN /\ pc' = [pc EXCEPT ![r] = "waiting"]
            /\ UNCHANGED <<sem, helper, log>>
       ELSE /\ sem' = [sem EXCEPT ![key[r]].current = @ + 1, ![key[r]].waiters = @ - 1]
            /\ pc' = [pc EXCEPT ![r] = "inflight"]
            /\ helper' = [helper EXCEPT ![r] = IF @ = "watching" THEN "closed" ELSE @]
            /\ Events(r, AcquireEvents(key[r]))
    /\ UNCHANGED <<cfg, env, aux, now, hosts, state, key, ctx, resp, action, result, solo>>

\* The wake-up whose successful exit leaves the done channel open.
WakeKeepingDone(r) ==
    /\ pc[r] = "woken"
    /\ IF ctx[r] # "live"
       THEN /\ sem' = [sem EXCEPT ![key[r]].waiters = @ - 1]
            /\ pc' = [pc EXCEPT ![r] = "failed"]
            /\ helper' = [helper EXCEPT ![r] = IF @ = "watching" THEN "closed" ELSE @]
            /\ UNCHANGED log
       ELSE IF ~SlotFree(key[r])
       THEN /\ pc' = [pc EXCEPT ![r] = "waiting"]
            /\ UNCHANGED <<sem, helper, log>>
       ELSE /\ sem' = [sem EXCEPT ![key[r]].current = @ + 1, ![key[r]].waiters = @ - 1]
            /\ pc' = [pc EXCEPT ![r] = "inflight"]
            /\ Events(r, AcquireEvents(key[r]))
            /\ UNCHANGED helper
    /\ UNCHANGED <<cfg, env, aux, now, hosts, state, key, ctx, resp, action, result, solo>>

\* Semaphore.Acquire from a wake-up of cond.Wait to its return or its next cond.Wait.
Wake(r) ==
    /\ pc[r] = "woken"
    /\ IF ctx[r] # "live"
       THEN /\ sem' = [sem EXCEPT ![key[r]].waiters = @ - 1]
            /\ pc' = [pc EXCEPT ![r] = "failed"]
            /\ helper' = [helper EXCEPT ![r] = IF @ = "watching" THEN "closed" ELSE @]
            /\ UNCHANGED log
       ELSE IF ~SlotFree(key[r])
       THEN /\ pc' = [pc EXCEPT ![r] = "waiting"]
            /\ UNCHANGED <<sem, helper, log>>
       ELSE /\ sem' = [sem EXCEPT ![key[r]].current = @ + 1, ![key[r]].waiters = @ - 1]
            /\ pc' = [pc EXCEPT ![r] = "inflight"]
            /\ helper' = [helper EXCEPT ![r] = IF @ = "watching" THEN "closed" ELSE @]
            /\ Events(r, AcquireEvents(key[r]))
    /\ UNCHANGED <<cfg, env, aux, now, hosts, state, key, ctx, resp, action, result, solo>>

\* The request's context is cancelled by the caller, or the acquire timeout expires.
CtxDone(r) ==
    /\ env.cancels
    /\ ctx[r] = "live"
    /\ pc[r] \in {"gate", "waiting", "woken"} \/ helper[r] # "none"
    /\ \E c \in {"canceled", "deadline"} : ctx' = [ctx EXCEPT ![r] = c]
    /\ UNCHANGED <<cfg, env, aux, now, hosts, state, sem, pc, key, helper, resp, action,
                   result, log, solo>>

\* A helper that ends on ctx.Done() without the Broadcast.
HelperSilent(r) ==
    /\ helper[r] \in {"watching", "closed"}
    /\ ctx[r] # "live"
    /\ helper' = [helper EXCEPT ![r] = "none"]
    /\ UNCHANGED <<cfg, env, aux, now, hosts, state, sem, pc, key, ctx, resp, action,
                   result, log, solo>>

\* Acquire's helper goroutine takes the ctx.Done() case: lock, Broadcast, unlock.
HelperBroadcast(r) ==
    /\ helper[r] \in {"watching", "closed"}
    /\ ctx[r] # "live"
    /\ pc' = Broadcast(key[r], pc)
    /\ helper' = [helper EXCEPT ![r] = "none"]
    /\ UNCHANGED <<cfg, env, aux, now, hosts, state, sem, key, ctx, resp, action,
                   result, log, solo>>

\* Acquire's helper goroutine takes the done case and ends.
HelperExit(r) ==
    /\ helper[r] = "closed"
    /\ helper' = [helper EXCEPT ![r] = "none"]
    /\ UNCHANGED <<cfg, env, aux, now, hosts, state, sem, pc, key, ctx, resp, action,
                   result, log, solo>>

\* The CapacityError path with the Release deferred before the Acquire.
ReturnCapacityErrorReleasing(r) ==
    /\ pc[r] = "failed"
    /\ result' = [result EXCEPT ![r] =
                    [kind |-> "CapacityError", Op |-> "acquire", Host |-> key[r],
                     Err |-> ctxErr(ctx[r]), State |-> Clone(key[r])]]
    /\ \E w \in Requests \cup {0} :
          /\ SemRelease(key[r], w)
          /\ pc' = [q \in Requests |-> IF q = r THEN "idle" ELSE IF q = w THEN "woken" ELSE pc[q]]
    /\ ctx' = [ctx EXCEPT ![r] = CtxAtReturn(r)]
    /\ UNCHANGED <<cfg, env, aux, now, hosts, state, key, helper, resp, action, log, solo>>

\* RoundTrip returns the CapacityError of a failed Acquire.
ReturnCapacityError(r) ==
    /\ pc[r] = "failed"
    /\ result' = [result EXCEPT ![r] =
                    [kind |-> "CapacityError", Op |-> "acquire", Host |-> key[r],
                     Err |-> ctxErr(ctx[r]), State |-> Clone(key[r])]]
    /\ pc' = [pc EXCEPT ![r] = "idle"]
    /\ ctx' = [ctx EXCEPT ![r] = CtxAtReturn(r)]
    /\ UNCHANGED <<cfg, env, aux, now, hosts, state, sem, key, helper, resp, action,
                   log, solo>>

\* The underlying RoundTrip fails.
BaseFails(r) ==
    /\ pc[r] = "inflight"
    /\ \E e \in env.errors : resp' = [resp EXCEPT ![r] = Failure(e)]
    /\ pc' = [pc EXCEPT ![r] = "base_failed"]
    /\ Events(r, <<"base.RoundTrip">>)
    /\ UNCHANGED <<cfg, env, aux, now, hosts, state, sem, key, ctx, helper, action, result, solo>>

\* The error path with GOAWAYHandler.ProcessError applied when EnableGOAWAYHandling is set.
ReturnErrorWithGOAWAY(r) ==
    /\ pc[r] = "base_failed"
    /\ \E w \in Requests \cup {0} :
          /\ SemRelease(key[r], w)
          /\ pc' = [q \in Requests |-> IF q = r THEN "idle" ELSE IF q = w THEN "woken" ELSE pc[q]]
    /\ result' = [result EXCEPT ![r] = [kind |-> "error", err |-> resp[r].err]]
    /\ LET s == ProcessError(resp[r].err, now)
       IN  IF cfg.EnableGOAWAYHandling /\ s # NoSignal
           THEN /\ state' = [state EXCEPT ![key[r]].BlockedUntil = s.BlockUntil]
                /\ Events(r, <<"ProcessError", "Release">>)
           ELSE /\ state' = state
                /\ Events(r, <<"Release">>)
    /\ ctx' = [ctx EXCEPT ![r] = CtxAtReturn(r)]
    /\ resp' = [resp EXCEPT ![r] = NoResponse]
    /\ UNCHANGED <<cfg, env, aux, now, hosts, key, helper, action, solo>>

\* The error path without the deferred Release.
ReturnErrorLeaking(r) ==
    /\ pc[r] = "base_failed"
    /\ pc' = [pc EXCEPT ![r] = "idle"]
    /\ result' = [result EXCEPT ![r] = [kind |-> "error", err |-> resp[r].err]]
    /\ ctx' = [ctx EXCEPT ![r] = CtxAtReturn(r)]
    /\ resp' = [resp EXCEPT ![r] = NoResponse]
    /\ UNCHANGED <<cfg, env, aux, now, hosts, state, sem, key, helper, action, log, solo>>

\* RoundTrip returns the error of the underlying RoundTrip: the deferred Release runs.
ReturnError(r) ==
    /\ pc[r] = "base_failed"
    /\ \E w \in Requests \cup {0} :
          /\ SemRelease(key[r], w)
          /\ pc' = [q \in Requests |-> IF q = r THEN "idle" ELSE IF q = w THEN "woken" ELSE pc[q]]
    /\ result' = [result EXCEPT ![r] = [kind |-> "error", err |-> resp[r].err]]
    /\ Events(r, <<"Release">>)
    /\ ctx' = [ctx EXCEPT ![r] = CtxAtReturn(r)]
    /\ resp' = [resp EXCEPT ![r] = NoResponse]
    /\ UNCHANGED <<cfg, env, aux, now, hosts, state, key, helper, action, solo>>

\* An updateState that restores the full concurrency when a response carries no signal.
RespondResetting(r) ==
    /\ pc[r] = "inflight"
    /\ \E rs \in env.responses :
          LET signals == Observe(rs, now)
              a == IF signals = <<>>
                   THEN [EmptyAction EXCEPT !.AdjustConcurrency = TRUE,
                                            !.NewConcurrency = cfg.MaxConcurrency]
                   ELSE processSignals(signals)
          IN  /\ resp' = [resp EXCEPT ![r] = rs]
              /\ action' = [action EXCEPT ![r] = a]
              /\ pc' = [pc EXCEPT ![r] = ApplyEntry(a, rs)]
              /\ Events(r, <<"base.RoundTrip">> \o ObserveLog(cfg.SignalHandlers, rs, now))
    /\ solo' = [q \in Requests |->
                  IF q = r THEN Applying(key[r]) = {}
                  ELSE IF q \in Applying(key[r]) THEN FALSE ELSE solo[q]]
    /\ UNCHANGED <<cfg, env, aux, now, hosts, state, sem, key, ctx, helper, result>>

\* A RoundTrip that gives its slot back when the response arrives, before updateState.
RespondGivingSlotBack(r) ==
    /\ pc[r] = "inflight"
    /\ \E rs \in env.responses :
          LET signals == Observe(rs, now)
              a == processSignals(signals)
          IN  /\ resp' = [resp EXCEPT ![r] = rs]
              /\ action' = [action EXCEPT ![r] = a]
              /\ pc' = [pc EXCEPT ![r] = IF signals = <<>> THEN "release"
                                         ELSE ApplyEntry(a, rs)]
              /\ Events(r, <<"base.RoundTrip">> \o ObserveLog(cfg.SignalHandlers, rs, now))
    /\ solo' = [q \in Requests |->
                  IF q = r THEN Applying(key[r]) = {}
                  ELSE IF q \in Applying(key[r]) THEN FALSE ELSE solo[q]]
    /\ sem' = [sem EXCEPT ![key[r]].current = @ - 1]
    /\ UNCHANGED <<cfg, env, aux, now, hosts, state, key, ctx, helper, result>>

\* The underlying RoundTrip returns a response; updateState runs the handlers on it
\* and aggregates their signals.
Respond(r) ==
    /\ pc[r] = "inflight"
    /\ \E rs \in env.responses :
          LET signals == Observe(rs, now)
              a == processSignals(signals)
          IN  /\ resp' = [resp EXCEPT ![r] = rs]
              /\ action' = [action EXCEPT ![r] = a]
              /\ pc' = [pc EXCEPT ![r] = IF signals = <<>> THEN "release"
                                         ELSE ApplyEntry(a, rs)]
              /\ Events(r, <<"base.RoundTrip">> \o ObserveLog(cfg.SignalHandlers, rs, now))
    /\ solo' = [q \in Requests |->
                  IF q = r THEN Applying(key[r]) = {}
                  ELSE IF q \in Applying(key[r]) THEN FALSE ELSE solo[q]]
    /\ UNCHANGED <<cfg, env, aux, now, hosts, state, sem, key, ctx, helper, result>>

\* updateState: action.Block.
SetBlocked(r) ==
    /\ pc[r] = "apply_block"
    /\ state' = [state EXCEPT ![key[r]].BlockedUntil = action[r].BlockUntil]
    /\ pc' = [pc EXCEPT ![r] = AfterBlock(action[r], resp[r])]
    /\ Events(r, <<"SetBlockedUntil">>)
    /\ UNCHANGED <<cfg, env, aux, now, hosts, sem, key, ctx, helper, resp, action,
                   result, solo>>

\* updateState: the clamp, GetCurrentConcurrency and the comparison.
GetCurrent(r) ==
    /\ pc[r] = "apply_get"
    /\ pc' = [pc EXCEPT ![r] = IF Suggested(action[r]) # state[key[r]].CurrentConcurrency
                               THEN "apply_set" ELSE AfterAdjust(resp[r])]
    /\ UNCHANGED <<cfg, env, aux, now, hosts, state, sem, key, ctx, helper, resp, action,
                   result, log, solo>>

\* A SetCurrentConcurrency that writes one State shared by all keys.
SetCurrentShared(r) ==
    /\ pc[r] = "apply_set"
    /\ state' = [k \in Keys |->
                   IF k \in hosts
                   THEN [state[k] EXCEPT !.CurrentConcurrency = Suggested(action[r])]
                   ELSE state[k]]
    /\ pc' = [pc EXCEPT ![r] = "apply_resize"]
    /\ Events(r, <<"SetCurrentConcurrency">>)
    /\ UNCHANGED <<cfg, env, aux, now, hosts, sem, key, ctx, helper, resp, action,
                   result, solo>>

\* updateState: SetCurrentConcurrency.
SetCurrent(r) ==
    /\ pc[r] = "apply_set"
    /\ state' = [state EXCEPT ![key[r]].CurrentConcurrency = Suggested(action[r])]
    /\ pc' = [pc EXCEPT ![r] = "apply_resize"]
    /\ Events(r, <<"SetCurrentConcurrency">>)
    /\ UNCHANGED <<cfg, env, aux, now, hosts, sem, key, ctx, helper, resp, action,
                   result, solo>>

\* updateState: Semaphore.Resize, which broadcasts when the capacity grew.
Resize(r) ==
    /\ pc[r] = "apply_resize"
    /\ sem' = [sem EXCEPT ![key[r]].max = Suggested(action[r])]
    /\ LET next == IF cfg.OnStateChange THEN "notify" ELSE AfterAdjust(resp[r])
           woken == IF Suggested(action[r]) > sem[key[r]].max
                    THEN Broadcast(key[r], pc) ELSE pc
       IN  pc' = [woken EXCEPT ![r] = next]
    /\ Events(r, <<"Resize">>)
    /\ aux' = [aux EXCEPT !.peak[key[r]] = max(@, Suggested(action[r]))]
    /\ UNCHANGED <<cfg, env, now, hosts, state, key, ctx, helper, resp, action,
                   result, solo>>

\* updateState: the OnStateChange callback, with a clone of the state.
Notify(r) ==
    /\ pc[r] = "notify"
    /\ pc' = [pc EXCEPT ![r] = AfterAdjust(resp[r])]
    /\ Events(r, <<"OnStateChange">>)
    /\ UNCHANGED <<cfg, env, aux, now, hosts, state, sem, key, ctx, helper, resp, action,
                   result, solo>>

\* updateState: State.Update with the response's capacity headers.
Update(r) ==
    /\ pc[r] = "update"
    /\ state' = [state EXCEPT ![key[r]] = StateUpdate(@, resp[r])]
    /\ pc' = [pc EXCEPT ![r] = "release"]
    /\ Events(r, <<"Update">>)
    /\ UNCHANGED <<cfg, env, aux, now, hosts, sem, key, ctx, helper, resp, action,
                   result, solo>>

\* A return that leaves the OnSignal callbacks of the response to run after it.
ReturnResponseCallbacksLate(r) ==
    /\ pc[r] = "release"
    /\ \E w \in Requests \cup {0} :
          /\ SemRelease(key[r], w)
          /\ pc' = [q \in Requests |-> IF q = r THEN "idle" ELSE IF q = w THEN "woken" ELSE pc[q]]
    /\ result' = [result EXCEPT ![r] = [kind |-> "response", resp |-> resp[r]]]
    /\ Events(r, <<"Release">>
                 \o SelectSeq(log[r], LAMBDA e : e \in {"OnSignal:http", "OnSignal:ratelimit",
                                                        "OnSignal:capacity"}))
    /\ ctx' = [ctx EXCEPT ![r] = CtxAtReturn(r)]
    /\ resp' = [resp EXCEPT ![r] = NoResponse]
    /\ action' = [action EXCEPT ![r] = EmptyAction]
    /\ solo' = [solo EXCEPT ![r] = FALSE]
    /\ UNCHANGED <<cfg, env, aux, now, hosts, state, key, helper>>

\* RoundTrip returns the response: the deferred Release runs.
ReturnResponse(r) ==
    /\ pc[r] = "release"
    /\ \E w \in Requests \cup {0} :
          /\ SemRelease(key[r], w)
          /\ pc' = [q \in Requests |-> IF q = r THEN "idle" ELSE IF q = w THEN "woken" ELSE pc[q]]
    /\ result' = [result EXCEPT ![r] = [kind |-> "response", resp |-> resp[r]]]
    /\ Events(r, <<"Release">>)
    /\ ctx' = [ctx EXCEPT ![r] = CtxAtReturn(r)]
    /\ resp' = [resp EXCEPT ![r] = NoResponse]
    /\ action' = [action EXCEPT ![r] = EmptyAction]
    /\ solo' = [solo EXCEPT ![r] = FALSE]
    /\ UNCHANGED <<cfg, env, aux, now, hosts, state, key, helper>>

\* Time passes.
Tick ==
    /\ now < MaxTime
    /\ now' = now + 1
    /\ UNCHANGED <<cfg, env, aux, hosts, state, sem, pc, key, ctx, helper, resp, action,
                   result, log, solo>>

Next ==
    \/ \E r \in Requests :
          \/ Start(r)
          \/ Create(r)
          \/ Gate(r)
          \/ Wake(r)
          \/ CtxDone(r)
          \/ HelperBroadcast(r)
          \/ HelperExit(r)
          \/ ReturnCapacityError(r)
          \/ BaseFails(r)
          \/ ReturnError(r)
          \/ Respond(r)
          \/ SetBlocked(r)
          \/ GetCurrent(r)
          \/ SetCurrent(r)
          \/ Resize(r)
          \/ Notify(r)
          \/ Update(r)
          \/ ReturnResponse(r)
    \/ Tick

Spec == Init /\ [][Next]_vars

-----------------------------------------------------------------------------
(* The Semaphore on its own: goroutines that call Acquire, TryAcquire, Release and
   Resize in any order on the Semaphore of key 1. Acquire is the Gate, Wake,
   CtxDone, HelperBroadcast and HelperExit of above. *)

MaxCapacity == 2

Capacities == 0..MaxCapacity

TheSem == 1

\* Transport.GetStats: one entry per key of Transport.hosts.
GetStats ==
    [k \in hosts |->
        [CurrentConcurrency |-> state[k].CurrentConcurrency,
         InUse |-> sem[k].current,
         Available |-> sem[k].max - sem[k].current,
         Waiting |-> sem[k].waiters,
         Status |-> state[k].Status]]

\* Semaphore.Available
Available(k) == sem[k].max - sem[k].current

\* A Resize that never broadcasts.
ResizeWakesNobody(k, n) == pc

\* Whom Resize(n) wakes: everybody asleep if the capacity grows, nobody otherwise.
ResizeWakes(k, n) == IF n > sem[k].max THEN Broadcast(k, pc) ELSE pc

SemInit ==
    /\ cfg = DefaultConfig
    /\ env = EnvOn(OneKey, {}, {}, TRUE)
    /\ now = 1
    /\ hosts = OneKey
    /\ state = [k \in Keys |-> NewState(0)]
    /\ \E n \in Capacities :
          /\ sem = [k \in Keys |-> NewSemaphore(IF k = TheSem THEN n ELSE 0)]
          /\ aux = [NoHistory EXCEPT !.made[TheSem] = 1, !.peak[TheSem] = n]
    /\ pc = [r \in Requests |-> "idle"]
    /\ key = [r \in Requests |-> TheSem]
    /\ ctx = [r \in Requests |-> "live"]
    /\ helper = [r \in Requests |-> "none"]
    /\ resp = [r \in Requests |-> NoResponse]
    /\ action = [r \in Requests |-> EmptyAction]
    /\ result = [r \in Requests |-> NoResult]
    /\ log = [r \in Requests |-> <<>>]
    /\ solo = [r \in Requests |-> FALSE]

\* A goroutine calls TryAcquire or Release.
Call(r) ==
    /\ pc[r] = "idle"
    /\ \E op \in {"try", "put"} : pc' = [pc EXCEPT ![r] = op]
    /\ result' = [result EXCEPT ![r] = NoResult]
    /\ UNCHANGED <<cfg, env, aux, now, hosts, state, sem, key, ctx, helper, resp, action,
                   log, solo>>

\* Acquire has returned to its caller.
AcquireReturns(r) ==
    /\ pc[r] \in {"inflight", "failed"}
    /\ result' = [result EXCEPT ![r] =
                    [kind |-> "Acquire",
                     err |-> IF pc[r] = "failed" THEN ctxErr(ctx[r]) ELSE ""]]
    /\ pc' = [pc EXCEPT ![r] = "idle"]
    /\ UNCHANGED <<cfg, env, aux, now, hosts, state, sem, key, ctx, helper, resp, action,
                   log, solo>>

\* A TryAcquire that takes a slot whatever the capacity.
TryAcquireAlways(r) ==
    /\ pc[r] = "try"
    /\ sem' = [sem EXCEPT ![key[r]].current = @ + 1]
    /\ result' = [result EXCEPT ![r] = [kind |-> "TryAcquire", ok |-> TRUE]]
    /\ pc' = [pc EXCEPT ![r] = "idle"]
    /\ UNCHANGED <<cfg, env, aux, now, hosts, state, key, ctx, helper, resp, action,
                   log, solo>>

\* Semaphore.TryAcquire
TryAcquire(r) ==
    /\ pc[r] = "try"
    /\ IF SlotFree(key[r])
       THEN /\ sem' = [sem EXCEPT ![key[r]].current = @ + 1]
            /\ result' = [result EXCEPT ![r] = [kind |-> "TryAcquire", ok |-> TRUE]]
       ELSE /\ sem' = sem
            /\ result' = [result EXCEPT ![r] = [kind |-> "TryAcquire", ok |-> FALSE]]
    /\ pc' = [pc EXCEPT ![r] = "idle"]
    /\ UNCHANGED <<cfg, env, aux, now, hosts, state, key, ctx, helper, resp, action,
                   log, solo>>

\* Semaphore.Release
Release(r) ==
    /\ pc[r] = "put"
    /\ \E w \in Requests \cup {0} :
          /\ SemRelease(key[r], w)
          /\ pc' = [q \in Requests |-> IF q = r THEN "idle" ELSE IF q = w THEN "woken" ELSE pc[q]]
    /\ result' = [result EXCEPT ![r] = [kind |-> "Release"]]
    /\ UNCHANGED <<cfg, env, aux, now, hosts, state, key, ctx, helper, resp, action,
                   log, solo>>

\* Semaphore.Resize(n)
SemaphoreResize(n) ==
    /\ ~aux.quiet
    /\ sem' = [sem EXCEPT ![TheSem].max = n]
    /\ pc' = ResizeWakes(TheSem, n)
    /\ aux' = [aux EXCEPT !.peak[TheSem] = max(@, n)]
    /\ UNCHANGED <<cfg, env, now, hosts, state, key, ctx, helper, resp, action,
                   result, log, solo>>

\* Every call has returned or is blocked in Acquire with a live context.
Settled ==
    \A r \in Requests :
        /\ pc[r] \in {"idle", "waiting", "woken"}
        /\ pc[r] \in {"waiting", "woken"} => ctx[r] = "live"
        /\ pc[r] = "idle" => helper[r] = "none"

\* Resize(n) to a larger capacity, after which nobody calls the Semaphore and no
\* context is cancelled: what is left to run is the goroutines blocked in Acquire.
QuietResize(n) ==
    /\ ~aux.quiet
    /\ Settled
    /\ n > sem[TheSem].max
    /\ sem' = [sem EXCEPT ![TheSem].max = n]
    /\ pc' = ResizeWakes(TheSem, n)
    /\ aux' = [aux EXCEPT !.peak[TheSem] = max(@, n), !.quiet = TRUE,
                          !.base = sem[TheSem].current,
                          !.blocked = sem[TheSem].waiters]
    /\ UNCHANGED <<cfg, env, now, hosts, state, key, ctx, helper, resp, action,
                   result, log, solo>>

\* The calls that were under way when the callers went still: a goroutine that has
\* called Acquire or TryAcquire and has not locked the mutex yet.
Entering(r) == pc[r] \in {"gate", "try"} /\ helper[r] = "none"

\* Release from a goroutine of its own on the full Semaphore with goroutines blocked
\* in Acquire (contexts live), after which nobody makes a new call and no context is
\* cancelled: what is left to run is the blocked goroutines and the calls under way.
LoneRelease ==
    /\ ~aux.quiet /\ ~aux.drained
    /\ \A r \in Requests :
          \/ Entering(r)
          \/ pc[r] = "idle" /\ helper[r] = "none"
          \/ pc[r] \in {"waiting", "woken"} /\ ctx[r] = "live"
    /\ sem[TheSem].current = sem[TheSem].max
    /\ sem[TheSem].current > 0
    /\ sem[TheSem].waiters >= 1
    /\ \E w \in Requests \cup {0} :
          /\ SemRelease(TheSem, w)
          /\ pc' = [q \in Requests |-> IF q = w THEN "woken" ELSE pc[q]]
    /\ aux' = [aux EXCEPT !.drained = TRUE,
                          !.calm = Settled,
                          !.base = sem[TheSem].current,
                          !.sleepers = {r \in Requests : pc[r] \in {"waiting", "woken"}}]
    /\ UNCHANGED <<cfg, env, now, hosts, state, key, ctx, helper, resp, action,
                   result, log, solo>>

\* Callers go on calling until a QuietResize or a LoneRelease.
Calling == ~aux.quiet /\ ~aux.drained

SemNext ==
    \/ \E r \in Requests :
          \/ Calling /\ Start(r)
          \/ Calling /\ Call(r)
          \/ ~aux.quiet /\ Gate(r)
          \/ Wake(r)
          \/ Calling /\ pc[r] \in {"waiting", "woken"} /\ CtxDone(r)
          \/ HelperBroadcast(r)
          \/ HelperExit(r)
          \/ Calling /\ AcquireReturns(r)
          \/ TryAcquire(r)
          \/ Release(r)
    \/ \E n \in Capacities : Calling /\ SemaphoreResize(n)
    \/ \E n \in Capacities : Calling /\ QuietResize(n)
    \/ LoneRelease

SemSpec == SemInit /\ [][SemNext]_vars

\* The Go scheduler runs every runnable goroutine: one woken from cond.Wait goes on,
\* and the helper of Acquire takes its ctx.Done() case.
SemFairSpec ==
    SemSpec /\ \A r \in Requests : WF_vars(Wake(r)) /\ WF_vars(HelperBroadcast(r))

-----------------------------------------------------------------------------
(* Acquire against a holder: the goroutines of Requests call Acquire on one semaphore
   while another goroutine takes a slot by the fast path and gives it back.
   aux.outside is the number of slots that goroutine holds. *)

\* The other goroutine's Acquire finds a slot free.
OutsideAcquire ==
    /\ aux.outside = 0
    /\ SlotFree(TheSem)
    /\ sem' = [sem EXCEPT ![TheSem].current = @ + 1]
    /\ aux' = [aux EXCEPT !.outside = 1]
    /\ UNCHANGED <<cfg, env, now, hosts, state, pc, key, ctx, helper, resp, action,
                   result, log, solo>>

\* The other goroutine's Release.
OutsideRelease ==
    /\ aux.outside = 1
    /\ \E w \in Requests \cup {0} :
          /\ SemRelease(TheSem, w)
          /\ pc' = [q \in Requests |-> IF q = w THEN "woken" ELSE pc[q]]
    /\ aux' = [aux EXCEPT !.outside = 0]
    /\ UNCHANGED <<cfg, env, now, hosts, state, key, ctx, helper, resp, action,
                   result, log, solo>>

RaceNext ==
    \/ \E r \in Requests :
          \/ Start(r)
          \/ Gate(r)
          \/ Wake(r)
          \/ CtxDone(r)
          \/ HelperBroadcast(r)
          \/ HelperExit(r)
          \/ AcquireReturns(r)
    \/ OutsideAcquire
    \/ OutsideRelease

RaceSpec == SemInit /\ [][RaceNext]_vars

\* The Go scheduler runs every runnable goroutine: one that has called Acquire goes
\* through it, one woken from cond.Wait goes on, one whose Acquire is over returns,
\* and the helper of Acquire goes on once a case of its select is ready. Whether a
\* caller calls again, the holder releases or a context ends is up to them.
RaceFairSpec ==
    RaceSpec /\ \A r \in Requests : /\ WF_vars(Gate(r))
                                    /\ WF_vars(Wake(r))
                                    /\ WF_vars(AcquireReturns(r))
                                    /\ WF_vars(HelperBroadcast(r))
                                    /\ WF_vars(HelperExit(r))

-----------------------------------------------------------------------------
(* updateState on its own: one caller at a time applies responses to one key, each
   updateState running from its first line to its last before the next begins. *)

\* updateState from the aggregated action a on: SetBlockedUntil, the change of the
\* concurrency where `changes` says so (SetCurrentConcurrency, Resize, OnStateChange),
\* State.Update. `seen` is what the handler loop has called.
Applied(k, rs, a, seen, changes) ==
    LET s1 == IF a.Block THEN [state[k] EXCEPT !.BlockedUntil = a.BlockUntil] ELSE state[k]
        s2 == IF changes THEN [s1 EXCEPT !.CurrentConcurrency = Suggested(a)] ELSE s1
        s3 == IF HasCapacityHeaders(rs) THEN StateUpdate(s2, rs) ELSE s2
    IN  [state |-> s3,
         max |-> IF changes THEN Suggested(a) ELSE sem[k].max,
         action |-> a,
         events |-> seen
                    \o (IF a.Block THEN <<"SetBlockedUntil">> ELSE <<>>)
                    \o (IF changes THEN <<"SetCurrentConcurrency", "Resize">> ELSE <<>>)
                    \o (IF changes /\ cfg.OnStateChange THEN <<"OnStateChange">> ELSE <<>>)
                    \o (IF HasCapacityHeaders(rs) THEN <<"Update">> ELSE <<>>)]

\* An updateState that sets, resizes and notifies without comparing with the current
\* concurrency.
ApplyActionUncompared(k, rs, a, seen) ==
    Applied(k, rs, a, seen, Adjusts(a))

\* updateState once the action is aggregated: the concurrency changes when the action
\* adjusts it and the clamped value is not the current one.
ApplyAction(k, rs, a, seen) ==
    Applied(k, rs, a, seen, Adjusts(a) /\ Suggested(a) # state[k].CurrentConcurrency)

\* Transport.updateState run alone on key k with response rs at time t: the State and
\* the semaphore capacity it leaves, the action it aggregated, and what it called.
updateState(k, rs, t) ==
    IF Observe(rs, t) = <<>>
    THEN [state |-> state[k], max |-> sem[k].max, action |-> EmptyAction,
          events |-> ObserveLog(cfg.SignalHandlers, rs, t)]
    ELSE ApplyAction(k, rs, processSignals(Observe(rs, t)),
                     ObserveLog(cfg.SignalHandlers, rs, t))

\* NewTransport, and the hostState of the one key as getOrCreateHostState makes it.
ApplyInit ==
    /\ \E sc \in Scenarios \cup Constructions : cfg = withDefaults(sc.cfg) /\ env = sc.env
    /\ now = 1
    /\ hosts = OneKey
    /\ state = [k \in Keys |-> NewState(IF k \in OneKey THEN cfg.InitialConcurrency ELSE 0)]
    /\ sem = [k \in Keys |-> NewSemaphore(IF k \in OneKey THEN cfg.InitialConcurrency ELSE 0)]
    /\ pc = [r \in Requests |-> "idle"]
    /\ key = [r \in Requests |-> TheSem]
    /\ ctx = [r \in Requests |-> "live"]
    /\ helper = [r \in Requests |-> "none"]
    /\ resp = [r \in Requests |-> NoResponse]
    /\ action = [r \in Requests |-> EmptyAction]
    /\ result = [r \in Requests |-> NoResult]
    /\ log = [r \in Requests |-> <<>>]
    /\ solo = [r \in Requests |-> TRUE]
    /\ aux = [NoHistory EXCEPT !.made[TheSem] = 1, !.peak[TheSem] = cfg.InitialConcurrency]

\* Caller r's updateState with a response of the underlying transport, from its
\* first line to its last.
Apply(r) ==
    /\ aux.applies < MaxApplies
    /\ \E rs \in env.responses :
          LET u == updateState(key[r], rs, now)
          IN  /\ state' = [state EXCEPT ![key[r]] = u.state]
              /\ sem' = [sem EXCEPT ![key[r]].max = u.max]
              /\ action' = [action EXCEPT ![r] = u.action]
              /\ log' = [log EXCEPT ![r] = u.events]
              /\ resp' = [resp EXCEPT ![r] = rs]
              /\ aux' = [aux EXCEPT !.applies = @ + 1,
                                    !.repeated = (aux.caller # 0 /\ rs = resp[aux.caller]),
                                    !.caller = r,
                                    !.peak[key[r]] = max(@, u.max)]
    /\ UNCHANGED <<cfg, env, now, hosts, pc, key, ctx, helper, result, solo>>

ApplyNext ==
    \/ \E r \in Requests : Apply(r)
    \/ Tick

ApplySpec == ApplyInit /\ [][ApplyNext]_vars

-----------------------------------------------------------------------------
(* processSignals and withDefaults on their own: env holds the inputs, a list of
   signals and a Config as the caller wrote it. *)

\* The signals a handler can return, as far as processSignals reads them: their type,
\* SuggestedConcurrency, BlockUntil and RetryAfter. A RetryAfter below zero is what
\* parseResetValue gives for a Unix timestamp that has passed (time.Until).
SignalPool ==
    {Signal("ratelimit", "block", 0, ra, bu, 0, 1) :
        <<bu, ra>> \in {<<0, 0>>, <<1, -1>>, <<2, 1>>, <<1, 2>>}}
    \cup {Signal("ratelimit", "rate_limit", n, 0, ZeroTime, 0, 0) : n \in {0, 1, 2}}
    \cup {Signal("capacity", "backoff", n, 0, ZeroTime, 0, 0) : n \in {-1, 1, 2}}
    \cup {Signal("capacity", "capacity", n, 0, ZeroTime, 0, 0) : n \in {0, 1, 2}}
    \cup {Signal("custom", "block", 1, 0, ZeroTime, 0, 0)}

SignalLists == UNION {[1..n -> SignalPool] : n \in 0..MaxSignals}

\* Configs as callers write them: every numeric field negative, zero (unset) or
\* positive, UserAgent empty or not, and no Config at all.
RawConfigs ==
    {NilConfig}
    \cup {[Config(i, m, n, <<>>, FALSE, FALSE)
             EXCEPT !.AcquireTimeout = a, !.StateExpiry = e, !.UserAgent = u] :
            i \in {-1, 0, 3}, m \in {-2, 0, 2}, n \in {-1, 0, 1},
            a \in {-1, 0, 7}, e \in {-5, 0, 60}, u \in {"", "agent"}}

\* A number as a server writes it into a header: decimal digits after a minus sign
\* for a negative one.
DigitChar(d) ==
    CASE d = 0 -> "0" [] d = 1 -> "1" [] d = 2 -> "2" [] d = 3 -> "3" [] d = 4 -> "4"
      [] d = 5 -> "5" [] d = 6 -> "6" [] d = 7 -> "7" [] d = 8 -> "8" [] d = 9 -> "9"

RECURSIVE Itoa(_)
Itoa(n) ==
    IF n < 0 THEN <<"-">> \o Itoa(-n)
    ELSE IF n < 10 THEN <<DigitChar(n)>>
    ELSE Itoa(n \div 10) \o <<DigitChar(n % 10)>>

\* The Retry-After values of a response: absent, seconds (zero, positive, negative),
\* an HTTP-date and something that is neither.
RetryAfterValues == {<<>>, <<"0">>, <<"1">>, <<"2">>, <<"-", "1">>, <<"@", "3">>, <<"x">>}

\* The values of the Limit and Remaining headers: absent, zero, negative, positive,
\* not a number, and for Limit the IETF form with a policy after the number.
LimitValues ==
    {<<>>, <<"x">>, <<"4", "5", ",", " ", "4", "5", ";", "w", "=", "6", "0">>}
    \cup {Itoa(n) : n \in {-5, 0, 1, 9, 10, 11, 19, 20, 21, 45, 100}}
RemainingValues ==
    {<<>>, <<"x">>} \cup {Itoa(n) : n \in -1..11}

\* The responses the handlers are run on: the three statuses and a 200 with every
\* Retry-After, and every Limit with every Remaining under either of two spellings of
\* the headers, with and without a Reset header.
ResponsePool ==
    {[Plain200 EXCEPT !.status = st, !.retryAfter = ra] :
        st \in {200, StatusTooManyRequests, StatusEnhanceYourCalm, StatusServiceUnavailable},
        ra \in RetryAfterValues}
    \cup {RateLimited(l, m, rs) : l \in LimitValues, m \in RemainingValues,
                                  rs \in {<<>>, <<"2">>}}
    \cup {[Plain200 EXCEPT !.limit = <<<<>>, l, <<>>>>, !.remaining = <<<<>>, m, <<>>>>] :
             l \in LimitValues, m \in RemainingValues}

PureInputs ==
    {[signals |-> l, config |-> NilConfig, response |-> NoResponse] : l \in SignalLists}
    \cup {[signals |-> <<>>, config |-> c, response |-> NoResponse] : c \in RawConfigs}
    \cup {[signals |-> <<>>, config |-> NilConfig, response |-> rs] : rs \in ResponsePool}

PureInit ==
    /\ env \in PureInputs
    /\ cfg = env.config
    /\ now = 1
    /\ hosts = {}
    /\ state = [k \in Keys |-> NewState(0)]
    /\ sem = [k \in Keys |-> NewSemaphore(0)]
    /\ pc = [r \in Requests |-> "idle"]
    /\ key = [r \in Requests |-> 1]
    /\ ctx = [r \in Requests |-> "live"]
    /\ helper = [r \in Requests |-> "none"]
    /\ resp = [r \in Requests |-> NoResponse]
    /\ action = [r \in Requests |-> EmptyAction]
    /\ result = [r \in Requests |-> NoResult]
    /\ log = [r \in Requests |-> <<>>]
    /\ solo = [r \in Requests |-> FALSE]
    /\ aux = NoHistory

\* Caller r's updateState aggregates the signals.
Aggregate(r) ==
    /\ result[r] = NoResult
    /\ action' = [action EXCEPT ![r] = processSignals(env.signals)]
    /\ result' = [result EXCEPT ![r] = [kind |-> "action"]]
    /\ UNCHANGED <<cfg, env, aux, now, hosts, state, sem, pc, key, ctx, helper, resp,
                   log, solo>>

\* NewTransport builds its effective configuration.
Defaults ==
    /\ ~aux.defaulted
    /\ cfg' = withDefaults(env.config)
    /\ aux' = [aux EXCEPT !.defaulted = TRUE]
    /\ UNCHANGED <<env, now, hosts, state, sem, pc, key, ctx, helper, resp, action,
                   result, log, solo>>

\* Caller r's updateState runs the built-in handlers on the response.
Handle(r) ==
    /\ result[r] = NoResult
    /\ env.response # NoResponse
    /\ resp' = [resp EXCEPT ![r] = env.response]
    /\ result' = [result EXCEPT ![r] =
                     [kind |-> "signals",
                      http |-> Process("http_status", env.response, now),
                      ratelimit |-> Process("ratelimit", env.response, now),
                      capacity |-> Process("capacity", env.response, now)]]
    /\ UNCHANGED <<cfg, env, aux, now, hosts, state, sem, pc, key, ctx, helper, action,
                   log, solo>>

PureNext ==
    \/ \E r \in Requests : Aggregate(r)
    \/ \E r \in Requests : Handle(r)
    \/ Defaults

PureSpec == PureInit /\ [][PureNext]_vars

-----------------------------------------------------------------------------
(* Properties *)

\* The requests that hold a slot of k: acquired, and not yet released.
HoldingPcs == {"inflight", "base_failed"} \cup ApplyPcs
Holders(k) == {q \in Requests : pc[q] \in HoldingPcs /\ key[q] = k}

\* Acquire returns nil to r in this step, and r's underlying round-trip begins.
AcquireStep(r) == pc[r] \in {"gate", "woken"} /\ pc'[r] = "inflight"

InLog(r, e) == \E i \in DOMAIN log[r] : log[r][i] = e

HandlerRegistered(h) == \E i \in DOMAIN cfg.SignalHandlers : cfg.SignalHandlers[i] = h

\* updateState is past its block part, or past its concurrency part.
PostBlockPcs == ApplyPcs \ {"apply_block"}
PostAdjustPcs == {"notify", "update", "release"}

C2_ConcurrencyWithinBounds ==
    \A k \in hosts :
        /\ cfg.MinConcurrency <= state[k].CurrentConcurrency
        /\ state[k].CurrentConcurrency <= cfg.MaxConcurrency

\* C3: State.current_concurrency equals the Semaphore's capacity whenever no request
\* of the key is between SetCurrentConcurrency and Resize.
C3_ConcurrencyEqualsCapacity ==
    \A k \in hosts :
        (\A r \in Requests : ~(key[r] = k /\ pc[r] = "apply_resize"))
            => state[k].CurrentConcurrency = sem[k].max

\* C4: once a response whose action proposes s > 0 is applied, with no other
\* response of the key applied meanwhile, current_concurrency is
\* min(max(s, min_concurrency), max_concurrency).
C4_ApplyClamps ==
    \A r \in Requests :
        (solo[r] /\ pc[r] \in PostAdjustPcs
            /\ action[r].AdjustConcurrency /\ action[r].NewConcurrency > 0)
        => state[key[r]].CurrentConcurrency =
              Min2(max(action[r].NewConcurrency, cfg.MinConcurrency), cfg.MaxConcurrency)

C4_Witness ==
    \E r \in Requests :
        /\ solo[r]
        /\ pc[r] = "release"
        /\ action[r].AdjustConcurrency
        /\ action[r].NewConcurrency > cfg.MaxConcurrency
        /\ cfg.MinConcurrency < cfg.MaxConcurrency
        /\ state[key[r]].CurrentConcurrency = cfg.MaxConcurrency

\* C5: once a response whose action proposes s is applied (no other response of the
\* key meanwhile), State.clamped is true iff s < min_concurrency.
C5_ClampedIffBelowMin ==
    \A r \in Requests :
        (solo[r] /\ pc[r] \in PostAdjustPcs
            /\ action[r].AdjustConcurrency /\ action[r].NewConcurrency > 0)
        => (state[key[r]].Clamped <=> action[r].NewConcurrency < cfg.MinConcurrency)

\* C6: with the HTTP status handler registered, once a 429, 420 or 503 response with
\* Retry-After: n (n > 0) is applied, blocked_until is n seconds after the instant
\* the response was processed.
C6_StatusSetsBlockedUntil ==
    \A r \in Requests :
        (solo[r] /\ pc[r] \in PostBlockPcs /\ HandlerRegistered("http_status")
            /\ resp[r].status \in {StatusTooManyRequests, StatusEnhanceYourCalm,
                                   StatusServiceUnavailable}
            /\ AtoiOk(resp[r].retryAfter) /\ Atoi(resp[r].retryAfter) > 0)
        => \E t \in 1..now :
              state[key[r]].BlockedUntil = t + Atoi(resp[r].retryAfter)

\* The response carries Limit > 0, Remaining <= 0 and a Reset in seconds from now.
Exhausted(rs) ==
    /\ parseRateLimitValue(getFirstHeader(rs.limit)) > 0
    /\ Atoi(getFirstHeader(rs.remaining)) <= 0
    /\ AtoiOk(getFirstHeader(rs.reset))
    /\ Atoi(getFirstHeader(rs.reset)) <= UnixTimestampThreshold

\* C7: with the rate-limit handler registered, a response with Limit > 0,
\* Remaining <= 0 and Reset = n seconds yields a signal of type block with
\* retry_after = n, and once it is applied blocked_until is n seconds after the
\* instant the response was processed.
C7_ExhaustedRateLimitBlocks ==
    \A r \in Requests :
        (solo[r] /\ pc[r] \in PostBlockPcs /\ HandlerRegistered("ratelimit")
            /\ Exhausted(resp[r]))
        => \E t \in 1..now :
              /\ RateLimitProcess(resp[r], t).Type = "block"
              /\ RateLimitProcess(resp[r], t).RetryAfter = Atoi(getFirstHeader(resp[r].reset))
              /\ state[key[r]].BlockedUntil = t + Atoi(getFirstHeader(resp[r].reset))

C7_Witness ==
    \E r \in Requests :
        /\ solo[r]
        /\ pc[r] = "release"
        /\ Exhausted(resp[r])
        /\ InLog(r, "SetBlockedUntil")
        /\ state[key[r]].BlockedUntil = now + 2

\* C8: a request to a blocked key passes the gate as one to a key that is not
\* blocked: its Acquire is never held back, it is dispatched iff a slot is free, and
\* the State is left as it is.
C8_BlockedKeyPassesGate ==
    /\ [](\A r \in Requests :
            (pc[r] = "gate" /\ IsBlocked(key[r])) => ENABLED Gate(r))
    /\ [][\A r \in Requests :
            (pc[r] = "gate" /\ pc'[r] # "gate" /\ IsBlocked(key[r]))
            => /\ SlotFree(key[r]) <=> pc'[r] = "inflight"
               /\ state' = state]_vars

C8_Witness ==
    \E r \in Requests : pc[r] = "inflight" /\ InLog(r, "(blocked)")

\* C9: a request whose Acquire fails had its context done; it returns a
\* CapacityError with op "acquire", its key, the context's error and the State as it
\* is; nothing ran for it (no underlying call, handler, callback or Release), and
\* in_use, capacity and State of the key are as they were.
C9_AcquireFailure ==
    [][\A r \in Requests :
          LET k == key[r]
              untouched == /\ sem'[k].current = sem[k].current
                           /\ sem'[k].max = sem[k].max
                           /\ state' = state
          IN  /\ (pc[r] \in {"gate", "woken"} /\ pc'[r] = "failed")
                 => ctx[r] \in {"canceled", "deadline"} /\ untouched
              /\ (pc[r] = "failed" /\ pc'[r] = "idle")
                 => /\ result'[r] =
                         [kind |-> "CapacityError", Op |-> "acquire", Host |-> k,
                          Err |-> IF ctx[r] = "deadline"
                                  THEN "context deadline exceeded"
                                  ELSE "context canceled",
                          State |-> state[k]]
                    /\ log'[r] = <<>>
                    /\ untouched]_vars

C9_Witness ==
    \E r \in Requests :
        /\ result[r].kind = "CapacityError"
        /\ result[r].Err = "context deadline exceeded"
        /\ sem[key[r]].current = sem[key[r]].max

C11_InUseIsHolders ==
    \A k \in hosts : sem[k].current = Cardinality(Holders(k))

C11_Witness ==
    /\ \A q \in Requests : pc[q] = "idle"
    /\ \E r, q \in Requests : result[r].kind = "response" /\ result[q].kind = "error"
    /\ hosts # {}
    /\ \A k \in hosts : sem[k].current = 0

\* A goroutine between the waiters++ of Acquire's slow path and its return.
Blocked(r) == pc[r] \in {"waiting", "woken"}

\* C12: a goroutine blocked in Acquire whose context is cancelled or times out
\* eventually returns the context's error, with no Release and no Resize needed.
C12_CancelledWaiterReturns ==
    \A r \in Requests :
        (Blocked(r) /\ ctx[r] # "live") ~> (pc[r] = "failed" /\ ctx[r] # "live")

\* Cancelled while blocked, back with the error, and every slot still taken.
C12_Witness ==
    \E r \in Requests :
        /\ pc[r] = "failed"
        /\ ctx[r] = "canceled"
        /\ sem[TheSem].waiters = 0
        /\ sem[TheSem].current >= sem[TheSem].max

\* The goroutines whose Acquire has returned nil since the callers went quiet.
Proceeded == {r \in Requests : pc[r] = "inflight"}

\* min(w, c2 - in_use_at_resize), for the Resize after which the callers are quiet.
StatedCount == Min2(aux.blocked, sem[TheSem].max - aux.base)

\* C13 (as stated): with w goroutines blocked in Acquire (contexts live) when Resize
\* raises the capacity from c1 to c2 > c1, and no call after it, exactly
\* min(w, c2 - in_use_at_resize) of them eventually return nil, and in_use grows by
\* that number.
C13_Original ==
    /\ [](aux.quiet => Cardinality(Proceeded) <= StatedCount)
    /\ aux.quiet ~> (/\ Cardinality(Proceeded) = StatedCount
                     /\ sem[TheSem].current = aux.base + StatedCount)

\* C13 (amended): the number is max(0, min(w, c2 - in_use_at_resize)): nobody
\* proceeds while in_use is not below the new capacity.
C13_ResizeUpAdmitsWaiters ==
    /\ [](aux.quiet => Cardinality(Proceeded) <= max(0, StatedCount))
    /\ aux.quiet ~> (/\ Cardinality(Proceeded) = max(0, StatedCount)
                     /\ sem[TheSem].current = aux.base + max(0, StatedCount))

\* Two blocked, one more slot: one of them is in, the other still waits.
C13_Witness ==
    /\ aux.quiet
    /\ aux.blocked = 2
    /\ sem[TheSem].max = aux.base + 1
    /\ sem[TheSem].current = aux.base + 1
    /\ \E r, q \in Requests : pc[r] = "inflight" /\ pc[q] = "waiting"

\* C14: after any sequence and interleaving of Acquire, TryAcquire, Release and
\* Resize, 0 <= in_use <= the largest capacity the semaphore ever had; a Release at
\* in_use = 0 changes nothing, any other Release takes exactly one from in_use.
C14_InUseWithinPeak ==
    /\ [](sem[TheSem].current >= 0 /\ sem[TheSem].current <= aux.peak[TheSem])
    /\ [][\A r \in Requests :
            (pc[r] = "put" /\ pc'[r] = "idle")
            => IF sem[TheSem].current = 0
               THEN sem' = sem
               ELSE sem' = [sem EXCEPT ![TheSem].current = @ - 1]]_vars

\* A Release that found nothing to release, under a capacity that was once higher.
C14_Witness ==
    /\ \E r \in Requests : result[r] = [kind |-> "Release"]
    /\ sem[TheSem].current = 0
    /\ sem[TheSem].max < aux.peak[TheSem]

\* C15: a Resize leaves in_use as it is, also when the new capacity is below it; and
\* every Acquire or TryAcquire that succeeds does so in a state with in_use <
\* capacity, so that none succeeds while in_use is not below the capacity.
C15_NoForcedReleaseNoOveradmission ==
    [][/\ sem'[TheSem].max # sem[TheSem].max => sem'[TheSem].current = sem[TheSem].current
       /\ sem'[TheSem].current > sem[TheSem].current
          => /\ sem[TheSem].current < sem[TheSem].max
             /\ sem'[TheSem].current = sem[TheSem].current + 1
       /\ \A r \in Requests :
             (pc[r] \in {"gate", "woken", "try"} /\ sem[TheSem].current >= sem[TheSem].max)
             => /\ pc'[r] # "inflight"
                /\ result'[r] # [kind |-> "TryAcquire", ok |-> TRUE]]_vars

\* The capacity was resized below in_use, and a TryAcquire has failed for it.
C15_Witness ==
    /\ sem[TheSem].current > sem[TheSem].max
    /\ \E r \in Requests : result[r] = [kind |-> "TryAcquire", ok |-> FALSE]
    /\ \E r \in Requests : pc[r] = "waiting"

\* C16: Available() is max(0, capacity - in_use) in every state, never negative, and
\* so is the Available that GetStats reports.
C16_AvailableNeverNegative ==
    \A k \in hosts :
        /\ Available(k) = max(0, sem[k].max - sem[k].current)
        /\ GetStats[k].Available >= 0

\* C17: waiters is the number of goroutines inside the slow path of Acquire: never
\* negative, and 0 when no Acquire is in progress.
C17_WaitersCountsSlowPath ==
    sem[TheSem].waiters = Cardinality({r \in Requests : Blocked(r)})

\* Blocked, cancelled, returned: waiters is back at 0.
C17_Witness ==
    /\ sem[TheSem].waiters = 0
    /\ \E r \in Requests : result[r] = [kind |-> "Acquire", err |-> "context canceled"]
    /\ \A r \in Requests : pc[r] = "idle"

\* C18: keys are independent. A step that changes the State or the Semaphore of a
\* key is a step of requests to that key alone; a request goes to wait only when
\* the slots of its own key are taken, and is dispatched when one of them is free;
\* GetStats has one entry per key that a request has used.
C18_KeysIndependent ==
    /\ [](/\ DOMAIN GetStats = {k \in Keys : aux.made[k] >= 1}
          /\ \A r \in Requests : pc[r] \notin {"idle", "create"} => key[r] \in DOMAIN GetStats)
    /\ [][/\ \A b \in Keys :
                (state'[b] # state[b] \/ sem'[b] # sem[b])
                => /\ \E r \in Requests : key[r] = b /\ pc'[r] # pc[r]
                   /\ \A q \in Requests : pc'[q] # pc[q] => key[q] = b
          /\ \A r \in Requests :
                (pc[r] = "gate" /\ pc'[r] # "gate")
                => (pc'[r] = "inflight" <=> sem[key[r]].current < sem[key[r]].max)]_vars

\* All slots of one key taken, a request to the other key in flight all the same,
\* and the two States apart.
C18_Witness ==
    \E r, q \in Requests :
        /\ key[r] # key[q]
        /\ pc[q] = "inflight"
        /\ pc[r] \in ApplyPcs
        /\ sem[key[r]].current = sem[key[r]].max
        /\ state[key[r]].CurrentConcurrency # state[key[q]].CurrentConcurrency
        /\ Cardinality(DOMAIN GetStats) = 2

\* C19: whatever the interleaving of first requests to a key, exactly one
\* {State, Semaphore} pair is created for it; every request past
\* getOrCreateHostState gates on that pair; and an entry of Transport.hosts is never
\* removed or replaced.
C19_OnePairPerKey ==
    /\ [](/\ \A k \in Keys : aux.made[k] = IF k \in hosts THEN 1 ELSE 0
          /\ \A r \in Requests : pc[r] \notin {"idle", "create"} => key[r] \in hosts)
    /\ [][/\ hosts \subseteq hosts'
          /\ \A k \in hosts : aux'.made[k] = aux.made[k]
          /\ \A r \in Requests : pc[r] \notin {"idle", "create"} /\ pc'[r] # "idle"
                                    => key'[r] = key[r]]_vars

\* A request that missed the key in its first lookup finds it under the write lock:
\* another request has created the pair meanwhile, and is in flight on it.
C19_Witness ==
    \E r, q \in Requests :
        /\ pc[r] = "create"
        /\ key[r] \in hosts
        /\ key[q] = key[r]
        /\ pc[q] = "inflight"

IsOnSignal(e) == e \in {"OnSignal:http", "OnSignal:ratelimit", "OnSignal:capacity"}

\* C20: within one request, every OnSignal callback runs before the OnStateChange
\* callback, and both run before RoundTrip returns the response (its deferred
\* Release is the last thing that runs for the request).
C20_CallbackOrder ==
    /\ [](\A r \in Requests : \A i, j \in DOMAIN log[r] :
            /\ (IsOnSignal(log[r][i]) /\ log[r][j] = "OnStateChange") => i < j
            /\ ((IsOnSignal(log[r][i]) \/ log[r][i] = "OnStateChange")
                  /\ log[r][j] = "Release") => i < j)
    /\ [][\A r \in Requests :
            /\ result'[r].kind = "response" => log'[r][Len(log'[r])] = "Release"
            /\ (result[r].kind = "response" /\ result'[r].kind = "response")
                  => log'[r] = log[r]]_vars

\* A response returned after OnSignal and OnStateChange have run for it.
C20_Witness ==
    \E r \in Requests :
        /\ result[r].kind = "response"
        /\ InLog(r, "OnSignal:capacity")
        /\ InLog(r, "OnStateChange")

\* C21: the clone handed to OnStateChange is taken after all the updates the
\* response causes: it has the new current_concurrency and the server-reported
\* fields of that response.
C21_CloneAfterAllUpdates ==
    [][\A r \in Requests :
          (pc[r] = "notify" /\ pc'[r] # "notify" /\ solo[r])
          => /\ Clone(key[r]).CurrentConcurrency = Suggested(action[r])
             /\ resp[r].capStatus # "" => Clone(key[r]).Status = resp[r].capStatus
             /\ (resp[r].capSuggested # <<>> /\ AtoiOk(resp[r].capSuggested))
                   => Clone(key[r]).SuggestedConcurrency = Atoi(resp[r].capSuggested)]_vars

\* What C22 says is left alone: the key's current_concurrency, semaphore capacity,
\* blocked_until and clamped.
ConcurrencyFrame(k) ==
    /\ state'[k].CurrentConcurrency = state[k].CurrentConcurrency
    /\ state'[k].BlockedUntil = state[k].BlockedUntil
    /\ state'[k].Clamped = state[k].Clamped
    /\ sem'[k].max = sem[k].max

C23_StateRefreshedFromHeaders ==
    \A r \in Requests :
       (pc[r] = "release" /\ solo[r] /\ HasCapacityHeaders(resp[r]))
       => state[key[r]] = StateUpdate(state[key[r]], resp[r])

\* C24: applying to a key the response that was applied to it just before changes
\* neither current_concurrency, the semaphore capacity, clamped nor the
\* server-reported fields, and calls neither Resize nor OnStateChange.
C24_SecondApplyIsNoOp ==
    [][(aux'.applies # aux.applies /\ aux'.repeated)
       => LET r == aux'.caller
              k == key[r]
          IN  /\ state'[k].CurrentConcurrency = state[k].CurrentConcurrency
              /\ sem'[k].max = sem[k].max
              /\ state'[k].Clamped = state[k].Clamped
              /\ state'[k].Status = state[k].Status
              /\ state'[k].SuggestedConcurrency = state[k].SuggestedConcurrency
              /\ \A i \in DOMAIN log'[r] : log'[r][i] \notin {"Resize", "OnStateChange"}]_vars

\* A response that adjusts the key's concurrency away from its initial value and
\* refreshes its State has been applied a second time, with OnStateChange registered.
C24_Witness ==
    /\ aux.repeated
    /\ cfg.OnStateChange
    /\ Adjusts(action[aux.caller])
    /\ state[TheSem].CurrentConcurrency = Suggested(action[aux.caller])
    /\ state[TheSem].CurrentConcurrency # cfg.InitialConcurrency
    /\ state[TheSem].Status # ""

\* The signals of `signals` whose type is in `types`, in their order.
OfType(signals, types) == SelectSeq(signals, LAMBDA x : x.Type \in types)

\* The list in the order p, a permutation of its indices.
Permuted(signals, p) == [i \in 1..Len(signals) |-> signals[p[i]]]

\* The fields of the action C25 speaks of.
Outcome(a) == <<a.Block, a.BlockUntil, a.RetryAfter, a.AdjustConcurrency, a.NewConcurrency>>

\* C25: for a list of signals that are all of type block, or all of type rate_limit
\* or backoff, processSignals gives the same block, block_until, retry_after,
\* adjust_concurrency and new_concurrency for every permutation of the list; for a
\* list of capacity signals the first positive suggestion is the one adopted.
C25_CommutativeWithinType ==
    \A r \in Requests :
       result[r].kind = "action"
       => LET l == env.signals
              positive == SelectSeq(l, LAMBDA x : x.SuggestedConcurrency > 0)
          IN  /\ (\/ OfType(l, {"block"}) = l
                  \/ OfType(l, {"rate_limit", "backoff"}) = l)
                 => \A p \in Permutations(1..Len(l)) :
                       Outcome(processSignals(Permuted(l, p))) = Outcome(action[r])
              /\ OfType(l, {"capacity"}) = l
                 => /\ action[r].AdjustConcurrency = (positive # <<>>)
                    /\ positive # <<>>
                       => action[r].NewConcurrency = Head(positive).SuggestedConcurrency

\* Three rate_limit and backoff signals were aggregated whose suggestions are not in
\* ascending order: the lowest one, in the middle, was taken.
C25_Witness ==
    \E r \in Requests :
       /\ result[r].kind = "action"
       /\ Len(env.signals) = 3
       /\ OfType(env.signals, {"rate_limit", "backoff"}) = env.signals
       /\ env.signals[1].SuggestedConcurrency = 2
       /\ env.signals[2].SuggestedConcurrency = 1
       /\ env.signals[3].SuggestedConcurrency = 2
       /\ env.signals[3].Type # env.signals[1].Type
       /\ action[r].NewConcurrency = 1

Largest(S) == CHOOSE x \in S : \A y \in S : y <= x

\* The block-type signals of the aggregated list.
BlockSignals == {env.signals[i] : i \in {j \in DOMAIN env.signals : env.signals[j].Type = "block"}}

C27_ExpiredAcquireIsTryAcquire ==
    [][\A r \in Requests :
          LET k == key[r]
          IN  (pc[r] = "gate" /\ pc'[r] # "gate" /\ ctx[r] # "live")
              => IF sem[k].current < sem[k].max
                 THEN /\ pc'[r] = "inflight"
                      /\ sem'[k] = [sem[k] EXCEPT !.current = @ + 1]
                 ELSE /\ pc'[r] = "failed"
                      /\ sem'[k] = sem[k]
                      /\ \A q \in Requests : pc'[q] # "waiting" \/ pc[q] = "waiting"]_vars

\* An Acquire whose context was done when it was called has failed on a semaphore of
\* capacity 0. Nobody else has called anything and the capacity was never raised, so
\* the caller was never woken from a wait: its helper would be gone if it had
\* been woken by it.
C27_Witness ==
    \E r \in Requests :
       /\ pc[r] = "failed"
       /\ ctx[r] = "deadline"
       /\ helper[r] = "closed"
       /\ sem[TheSem] = [max |-> 0, current |-> 0, waiters |-> 0]
       /\ aux.peak[TheSem] = 0
       /\ \A q \in Requests \ {r} :
             pc[q] = "idle" /\ result[q] = NoResult /\ helper[q] = "none"

\* C28: compare, update, resize and notify are one atomic step per key, also for
\* responses applied concurrently: every SetCurrentConcurrency of updateState is an
\* actual change of current_concurrency (an apply whose clamped value equals the
\* current one does nothing), and OnStateChange runs after the matching Resize, the
\* key's current_concurrency and semaphore capacity being the value it reports.
C28_ApplyAtomicPerKey ==
    [][\A r \in Requests :
          LET k == key[r]
          IN  /\ (pc[r] = "apply_set" /\ pc'[r] = "apply_resize")
                 => state'[k].CurrentConcurrency # state[k].CurrentConcurrency
              /\ (pc[r] = "notify" /\ pc'[r] # "notify")
                 => /\ state[k].CurrentConcurrency = Suggested(action[r])
                    /\ sem[k].max = Suggested(action[r])]_vars

\* The goroutines blocked in Acquire at the LoneRelease whose Acquire has returned
\* nil since.
Served == {r \in aux.sleepers : pc[r] = "inflight"}

\* C29 (as stated): with the semaphore full and w >= 1 goroutines with live contexts
\* blocked in Acquire, one Release lets exactly one of them complete Acquire: never
\* two, in_use is back at capacity only by one of them, and one of them eventually
\* returns with in_use back at capacity.
C29_Original ==
    /\ [](aux.drained => Cardinality(Served) <= 1)
    /\ [](aux.drained /\ sem[TheSem].current = aux.base => Cardinality(Served) = 1)
    /\ aux.drained ~> (Cardinality(Served) = 1 /\ sem[TheSem].current = aux.base)

\* C29: the same, when no call of Acquire or TryAcquire by another goroutine is under
\* way at the Release and none is made after it.
C29_OneReleaseOneWaiter ==
    /\ [](aux.drained /\ aux.calm => Cardinality(Served) <= 1)
    /\ [](aux.drained /\ aux.calm /\ sem[TheSem].current = aux.base
             => Cardinality(Served) = 1)
    /\ (aux.drained /\ aux.calm)
          ~> (Cardinality(Served) = 1 /\ sem[TheSem].current = aux.base)

\* Two goroutines were blocked at the Release; one of them has acquired and the
\* other is asleep in cond.Wait again.
C29_Witness ==
    /\ aux.drained /\ aux.calm
    /\ Cardinality(aux.sleepers) = 2
    /\ Cardinality(Served) = 1
    /\ sem[TheSem].current = aux.base
    /\ \E r \in aux.sleepers : pc[r] = "waiting"

\* The smallest of a non-empty set of numbers.
Smallest(S) == CHOOSE x \in S : \A y \in S : x <= y

\* The positions of the aggregated list whose signal carries a positive suggestion and
\* is of one of the given types.
Proposing(types) ==
    {i \in DOMAIN env.signals : /\ env.signals[i].Type \in types
                                /\ env.signals[i].SuggestedConcurrency > 0}

\* The positive suggestions of the rate_limit and backoff signals of the list.
StrongSuggestions ==
    {env.signals[i].SuggestedConcurrency : i \in Proposing({"rate_limit", "backoff"})}

\* The suggestion of a capacity signal that is the first proposal of the list, if any.
LeadingCapacity ==
    LET all == Proposing({"rate_limit", "backoff", "capacity"})
    IN  IF all # {} /\ env.signals[Smallest(all)].Type = "capacity"
        THEN {env.signals[Smallest(all)].SuggestedConcurrency}
        ELSE {}

\* C31 as stated: new_concurrency is the least positive suggestion of the rate_limit
\* and backoff signals whenever there is one, otherwise the first positive capacity
\* suggestion; adjust_concurrency iff some signal of the list has a positive
\* suggestion.
C31_Original ==
    \A r \in Requests :
       result[r].kind = "action"
       => /\ StrongSuggestions # {}
             => action[r].NewConcurrency = Smallest(StrongSuggestions)
          /\ StrongSuggestions = {} /\ LeadingCapacity # {}
             => action[r].NewConcurrency \in LeadingCapacity
          /\ action[r].AdjustConcurrency
             = (\E i \in DOMAIN env.signals : env.signals[i].SuggestedConcurrency > 0)

\* C31: adjust_concurrency iff some rate_limit, backoff or capacity signal of the
\* list has a positive suggestion; new_concurrency is then the least among the positive
\* rate_limit and backoff suggestions and the capacity suggestion that came before
\* every other proposal, if there is one. Later capacity suggestions and the
\* suggestions of block signals play no part, and without a proposal new_concurrency
\* stays 0.
C31_ConcurrencyAggregation ==
    \A r \in Requests :
       result[r].kind = "action"
       => /\ action[r].AdjustConcurrency
             = (Proposing({"rate_limit", "backoff", "capacity"}) # {})
          /\ action[r].NewConcurrency
             = IF Proposing({"rate_limit", "backoff", "capacity"}) # {}
               THEN Smallest(StrongSuggestions \cup LeadingCapacity)
               ELSE 0

\* A list of three signals was aggregated to new_concurrency 1 in which either a
\* rate_limit or backoff signal proposes 1 and the capacity signal after it proposes 2,
\* or a capacity signal proposing 1 comes before a stronger signal proposing 2.
C31_Witness ==
    \E r \in Requests :
       /\ result[r].kind = "action"
       /\ Len(env.signals) = 3
       /\ action[r].AdjustConcurrency
       /\ action[r].NewConcurrency = 1
       /\ \/ /\ env.signals[1].Type \in {"rate_limit", "backoff"}
             /\ env.signals[1].SuggestedConcurrency = 1
             /\ env.signals[2].Type = "capacity"
             /\ env.signals[2].SuggestedConcurrency = 2
          \/ /\ env.signals[1].Type = "capacity"
             /\ env.signals[1].SuggestedConcurrency = 1
             /\ env.signals[2].Type \in {"rate_limit", "backoff"}
             /\ env.signals[2].SuggestedConcurrency = 2

\* The handlers that ran for caller r's response, and the sources of the signals its
\* on_signal callback was given, in the order of the run.
HandlerRuns(r) == SelectSeq(log[r], LAMBDA e : e \in {"goaway", "http_status", "ratelimit", "capacity"})
SignalRuns(r) == SelectSeq(log[r], LAMBDA e : e \in {"OnSignal:http", "OnSignal:ratelimit", "OnSignal:capacity"})

\* The priority of the handler that emits signals of the source an on_signal event names.
SourcePriority(e) ==
    CASE e = "OnSignal:http" -> Priority("http_status")
      [] e = "OnSignal:ratelimit" -> Priority("ratelimit")
      [] e = "OnSignal:capacity" -> Priority("capacity")

\* C32: however the Transport was built, the handlers run on a response in ascending
\* priority order, every registered handler runs, and the on_signal callbacks (hence
\* the signal list handed to aggregation) follow that order.
C32_HandlersInPriorityOrder ==
    \A r \in Requests :
       log[r] # <<>>
       => /\ Len(HandlerRuns(r)) = Len(cfg.SignalHandlers)
          /\ \A i, j \in DOMAIN HandlerRuns(r) :
                i < j => Priority(HandlerRuns(r)[i]) <= Priority(HandlerRuns(r)[j])
          /\ \A i, j \in DOMAIN SignalRuns(r) :
                i < j => SourcePriority(SignalRuns(r)[i]) <= SourcePriority(SignalRuns(r)[j])

\* The Retry-After header of the handled response holds an integer n >= 0.
RetryAfterSeconds(rs) == AtoiOk(rs.retryAfter) /\ Atoi(rs.retryAfter) >= 0

\* C33: for a 429, 420 or 503 whose Retry-After header holds an integer n >= 0,
\* HTTPStatusHandler's signal has retry_after = n, and block_until = now + n if n > 0
\* and no block_until if n = 0.
C33_RetryAfterOverridesDefault ==
    \A r \in Requests :
       (/\ result[r].kind = "signals"
        /\ resp[r].status \in {StatusTooManyRequests, StatusEnhanceYourCalm,
                                StatusServiceUnavailable}
        /\ RetryAfterSeconds(resp[r]))
       => /\ result[r].http # NoSignal
          /\ result[r].http.RetryAfter = Atoi(resp[r].retryAfter)
          /\ result[r].http.BlockUntil
             = IF Atoi(resp[r].retryAfter) > 0 THEN now + Atoi(resp[r].retryAfter)
               ELSE ZeroTime

\* The Limit and Remaining headers the handler reads from a response, and whether
\* both are present and hold integers.
LimitHeader(rs) == getFirstHeader(rs.limit)
RemainingHeader(rs) == getFirstHeader(rs.remaining)
BothIntegers(rs) ==
    /\ LimitHeader(rs) # <<>> /\ AtoiOk(CutAtSeparator(LimitHeader(rs)))
    /\ RemainingHeader(rs) # <<>> /\ AtoiOk(RemainingHeader(rs))

\* C34: for integers limit and remaining read from present headers, RateLimitHandler's
\* signal is a block iff remaining <= 0 and limit > 0; otherwise a rate_limit with
\* suggested_concurrency max(1, remaining*10/limit) iff limit > 0 and
\* remaining < limit/10; otherwise a capacity signal without suggestion. It carries the
\* two numbers, and a response without any rate-limit header gets no signal.
C34_RateLimitClassification ==
    \A r \in Requests :
       result[r].kind = "signals"
       => LET s == result[r].ratelimit
              l == Atoi(CutAtSeparator(LimitHeader(resp[r])))
              m == Atoi(RemainingHeader(resp[r]))
          IN  /\ BothIntegers(resp[r])
                 => /\ s # NoSignal
                    /\ s.Limit = l /\ s.Remaining = m
                    /\ IF m <= 0 /\ l > 0
                       THEN s.Type = "block" /\ s.SuggestedConcurrency = 0
                       ELSE IF l > 0 /\ m < l \div 10
                       THEN /\ s.Type = "rate_limit"
                            /\ s.SuggestedConcurrency
                               = (IF (m * 10) \div l > 1 THEN (m * 10) \div l ELSE 1)
                       ELSE s.Type = "capacity" /\ s.SuggestedConcurrency = 0
              /\ (/\ LimitHeader(resp[r]) = <<>> /\ RemainingHeader(resp[r]) = <<>>
                  /\ getFirstHeader(resp[r].reset) = <<>> /\ resp[r].rateInfo = <<>>)
                 => s = NoSignal

\* The handler has classified a response that has RateLimit-Limit in the IETF form
\* "45, 45;w=60" and RateLimit-Remaining: 3 as rate_limit with suggestion 1.
C34_Witness ==
    \E r \in Requests :
       /\ result[r].kind = "signals"
       /\ LimitHeader(resp[r]) = <<"4", "5", ",", " ", "4", "5", ";", "w", "=", "6", "0">>
       /\ resp[r].limit[1] = <<>>
       /\ RemainingHeader(resp[r]) = <<"3">>
       /\ result[r].ratelimit.Type = "rate_limit"
       /\ result[r].ratelimit.SuggestedConcurrency = 1

\* C39: a rate_limit signal of RateLimitHandler has limit > 0 and
\* 0 < remaining < limit/10 (integer division) and suggests exactly 1, and every
\* response with such limit and remaining gets that signal.
C39_RateLimitSuggestsOne ==
    \A r \in Requests :
       result[r].kind = "signals" /\ result[r].ratelimit # NoSignal
       => LET s == result[r].ratelimit
          IN  /\ s.Type = "rate_limit"
                 => /\ s.Limit > 0 /\ 0 < s.Remaining /\ s.Remaining < s.Limit \div 10
                    /\ (s.Remaining * 10) \div s.Limit = 0
                    /\ s.SuggestedConcurrency = 1
              /\ (s.Limit > 0 /\ 0 < s.Remaining /\ s.Remaining < s.Limit \div 10)
                 => s.Type = "rate_limit" /\ s.SuggestedConcurrency = 1

\* The handler has emitted a rate_limit signal for X-RateLimit-Limit: 100 with
\* X-RateLimit-Remaining: 9, the largest remaining below a tenth of the limit.
C39_Witness ==
    \E r \in Requests :
       /\ result[r].kind = "signals"
       /\ resp[r].limit[1] = <<"1", "0", "0">>
       /\ resp[r].remaining[1] = <<"9">>
       /\ result[r].ratelimit.Type = "rate_limit"
       /\ result[r].ratelimit.Limit = 100
       /\ result[r].ratelimit.Remaining = 9

\* The response carries X-Capacity-Suggested-Concurrency with a negative number, or
\* with zero.
NegativeSuggestion(rs) == AtoiOk(rs.capSuggested) /\ Atoi(rs.capSuggested) < 0
ZeroSuggestion(rs) == AtoiOk(rs.capSuggested) /\ Atoi(rs.capSuggested) = 0

\* Another handler's signal for the response proposes a concurrency.
ProposedElsewhere(rs) ==
    \E h \in {"http_status", "ratelimit"} :
       /\ HandlerRegistered(h)
       /\ Process(h, rs, now) # NoSignal
       /\ Process(h, rs, now).SuggestedConcurrency > 0

\* C35 as stated: applying a response whose X-Capacity-Suggested-Concurrency is
\* negative changes neither current_concurrency, the semaphore capacity nor
\* State.suggested_concurrency, and one whose suggestion is zero does not change
\* current_concurrency.
C35_Original ==
    [][(aux'.applies # aux.applies)
       => LET r == aux'.caller
              k == key[r]
          IN  /\ NegativeSuggestion(resp'[r])
                 => /\ state'[k].CurrentConcurrency = state[k].CurrentConcurrency
                    /\ sem'[k].max = sem[k].max
                    /\ state'[k].SuggestedConcurrency = state[k].SuggestedConcurrency
              /\ ZeroSuggestion(resp'[r])
                 => state'[k].CurrentConcurrency = state[k].CurrentConcurrency]_vars

\* C35: applying a response whose X-Capacity-Suggested-Concurrency is negative leaves
\* State.suggested_concurrency as it was, and a negative or zero suggestion leaves
\* current_concurrency and the semaphore capacity as they were unless the signal of
\* another handler for the same response proposes a concurrency.
C35_InvalidSuggestionIgnored ==
    [][(aux'.applies # aux.applies)
       => LET r == aux'.caller
              k == key[r]
          IN  /\ NegativeSuggestion(resp'[r])
                 => state'[k].SuggestedConcurrency = state[k].SuggestedConcurrency
              /\ ((NegativeSuggestion(resp'[r]) \/ ZeroSuggestion(resp'[r]))
                  /\ ~ProposedElsewhere(resp'[r]))
                 => /\ state'[k].CurrentConcurrency = state[k].CurrentConcurrency
                    /\ sem'[k].max = sem[k].max
                    /\ \A i \in DOMAIN log'[r] :
                          log'[r][i] \notin {"SetCurrentConcurrency", "Resize"}]_vars

\* After a suggestion of 3 was adopted, a response with X-Capacity-Status: at_limit
\* and a suggestion of -1 has been applied: the State still has suggested_concurrency
\* 3 and current_concurrency 3 with the new status.
C35_Witness ==
    /\ aux.caller # 0
    /\ resp[aux.caller] = InvalidSuggestion
    /\ state[TheSem].Status = "at_limit"
    /\ state[TheSem].SuggestedConcurrency = 3
    /\ state[TheSem].CurrentConcurrency = 3
    /\ sem[TheSem].max = 3
    /\ cfg.InitialConcurrency = 2

\* C38: a key's State.blocked_until never moves to an earlier instant: applying a
\* response whose action blocks stores a blocked_until that is not before the one
\* stored until then, also when the block signal has no reset value.
C38_BlockedUntilNeverEarlier ==
    [][\A k \in Keys : state'[k].BlockedUntil >= state[k].BlockedUntil]_vars

\* C36: no wakeup is lost. A goroutine with a live context that sleeps in Acquire's
\* cond.Wait while a slot is free does not stay so: it leaves the wait (and acquires),
\* or the slot is taken, or its own context is done; also when the waiter that a
\* Release had signalled was cancelled and returned its error.
C36_NoLostWakeup ==
    \A r \in Requests :
       (pc[r] = "waiting" /\ ctx[r] = "live" /\ SlotFree(TheSem))
       ~> (pc[r] # "waiting" \/ ctx[r] # "live" \/ ~SlotFree(TheSem))

\* Caller r is inside Acquire: at its entry, asleep in cond.Wait, or woken from it.
InAcquire(r) == pc[r] \in {"gate", "waiting", "woken"}

\* C40: the helper goroutine of a slow-path Acquire terminates once that Acquire has
\* returned, whether it returned nil or the context's error and whether or not the
\* context is ever done: no helper is left after the call for ever.
C40_HelperTerminates ==
    \A r \in Requests :
       (helper[r] # "none" /\ ~InAcquire(r)) ~> (helper[r] = "none")

\* An Acquire that went through the slow path has returned its context's error and
\* its helper is gone, while the other caller, whose context is live, is asleep in
\* the slow path with its helper still there.
C40_Witness ==
    \E r, q \in Requests :
       /\ result[r] = [kind |-> "Acquire", err |-> "context canceled"]
       /\ pc[r] = "idle" /\ helper[r] = "none"
       /\ pc[q] = "waiting" /\ helper[q] = "watching" /\ ctx[q] = "live"
       /\ sem[TheSem].waiters = 1

\* What runs for a response before RoundTrip returns it: the handlers and the callbacks.
IsObserveOrApply(e) ==
    \/ e \in {"goaway", "http_status", "ratelimit", "capacity"}
    \/ IsOnSignal(e)
    \/ e = "OnStateChange"

\* C37: a request's slot is given back only after every handler and every on_signal
\* and on_state_change callback of its response has returned: in_use of a key counts
\* the requests of the key between their Acquire and their return, those in the
\* observe and apply phases included, the Release is the step that ends those phases,
\* and while one request is in them another request of the key gets a slot only if
\* the holders, that request included, are fewer than the capacity.
C37_SlotHeldThroughCallbacks ==
    /\ [](\A k \in hosts : sem[k].current = Cardinality(Holders(k)))
    /\ [](\A r \in Requests : \A i, j \in DOMAIN log[r] :
            (IsObserveOrApply(log[r][i]) /\ log[r][j] = "Release") => i < j)
    /\ [][\A r \in Requests :
            (pc[r] \in ApplyPcs /\ pc'[r] \notin ApplyPcs)
            => /\ log'[r] = log[r] \o <<"Release">>
               /\ sem'[key[r]].current = sem[key[r]].current - 1]_vars
    /\ [][\A r, q \in Requests :
            (r # q /\ key[q] = key[r] /\ pc[r] \in ApplyPcs /\ AcquireStep(q))
            => /\ r \in Holders(key[r])
               /\ Cardinality(Holders(key[r])) < sem[key[r]].max]_vars

\* A request is in its apply phase, its on_signal callback having run, on a key of
\* capacity 1, and the other request of the key is asleep in Acquire.
C37_Witness ==
    \E r, q \in Requests :
       /\ pc[r] \in ApplyPcs \ {"release"}
       /\ InLog(r, "OnSignal:capacity")
       /\ key[q] = key[r]
       /\ pc[q] = "waiting"
       /\ sem[key[r]].max = 1
       /\ sem[key[r]].current = 1

====
